---- MODULE Spec2Model ----
(***************************************************************************)
(* A model of yana's provider abstraction and agent control loop:          *)
(*   - src/src/providers/http.ts: error classification, backoff, withRetry *)
(*     and fetchWithRetry;                                                 *)
(*   - src/src/providers/adapters/openai.ts and openrouter.ts: the         *)
(*     OpenAI-style and Anthropic-style stream() generators;               *)
(*   - src/src/agent/loop.ts: AgentLoop.runOnce and runOnceStream.         *)
(* Each component has its own variables and its own specification; a       *)
(* specification keeps the other components' variables parked.             *)
(* Text is a sequence of tokens, so that concatenation is \o.              *)
(***************************************************************************)
EXTENDS Integers, Sequences, FiniteSets, TLC

VARIABLES
  \* classifyHttpStatusError applied to one status
  cl_status, cl_result,
  \* computeBackoffMs applied to successive attempts of one policy
  bo_base, bo_max, bo_attempt, bo_delay, bo_prev,
  \* one fetchWithRetry call
  rt_policy, rt_pc, rt_attempt, rt_timer, rt_thrown, rt_error, rt_details,
  rt_sleeps, rt_result, rt_calls, rt_failed, rt_ok, rt_lastStatus,
  \* one AgentLoop turn (runOnce or runOnceStream) and its session
  lp_mode, lp_listener, lp_pc, lp_userContent, lp_messages, lp_finalContent,
  lp_iteration, lp_toolCalls, lp_streamedContent, lp_next, lp_session,
  lp_lastSavedIndex, lp_file, lp_returned, lp_deltas, lp_events,
  \* what the turn's environment did, recorded for the claims
  lp_providerCalls, lp_sent, lp_streamOpen, lp_frags, lp_lastToolFrag,
  lp_lastResponseHadTools, lp_lastContent, lp_inFlight, lp_execs,
  \* one stream() call of a provider adapter
  st_adapter, st_pc, st_chunks, st_buffer, st_blocks, st_finishReason,
  st_yielded,
  \* what the call was given and did, recorded for the claims
  st_deltas, st_argParses, st_reported, st_timer,
  \* the session store for one key and its callers
  sm_file, sm_objs, sm_cache, sm_task,
  \* the file at the start, the messages added in order, the appendFile calls
  sm_file0, sm_added, sm_writes,
  \* one call of a helper of providers/base: its name, argument and result
  fn_name, fn_arg, fn_result,
  \* one ToolRegistry: its map, the register and unregister calls made on
  \* it, and what the last call did if it was an execute
  tr_tools, tr_log, tr_executed,
  \* one response body: the tokens stream() has received and those to come
  ln_body, ln_rest,
  \* how many onDelta calls had been made when the provider was last called
  ob_mark,
  \* the text of one session file, the Session a first SessionManager holds
  \* for its key, and the history a fresh SessionManager loads from it
  fs_pc, fs_file, fs_messages, fs_lastSavedIndex, fs_loaded,
  \* the entries the file held at the start and the messages added since
  fs_old, fs_added

clVars == <<cl_status, cl_result>>
boVars == <<bo_base, bo_max, bo_attempt, bo_delay, bo_prev>>
rtVars == <<rt_policy, rt_pc, rt_attempt, rt_timer, rt_thrown, rt_error,
            rt_details, rt_sleeps, rt_result, rt_calls, rt_failed, rt_ok,
            rt_lastStatus>>

lpVars == <<lp_mode, lp_listener, lp_pc, lp_userContent, lp_messages,
            lp_finalContent, lp_iteration, lp_toolCalls, lp_streamedContent,
            lp_next, lp_session, lp_lastSavedIndex, lp_file, lp_returned,
            lp_deltas, lp_events, lp_providerCalls, lp_sent, lp_streamOpen,
            lp_frags, lp_lastToolFrag, lp_lastResponseHadTools, lp_lastContent,
                 lp_inFlight, lp_execs>>

stVars ==
  <<st_adapter, st_pc, st_chunks, st_buffer, st_blocks, st_finishReason,
    st_yielded, st_deltas, st_argParses,
                 st_reported, st_timer>>

smVars ==
  <<sm_file, sm_objs, sm_cache, sm_task, sm_file0, sm_added, sm_writes>>

fnVars == <<fn_name, fn_arg, fn_result>>

trVars == <<tr_tools, tr_log, tr_executed>>

lnVars == <<ln_body, ln_rest>>

obVars == <<ob_mark>>

fsVars ==
  <<fs_pc, fs_file, fs_messages, fs_lastSavedIndex, fs_loaded, fs_old,
    fs_added>>

vars == <<clVars, boVars, rtVars, lpVars, stVars, smVars, fnVars, trVars, lnVars, obVars, fsVars>>

Min(a, b) == IF a <= b THEN a ELSE b

\* The absent value of an optional string field (undefined / null).
NoVal == "<none>"
\* null where a text is expected: a text no real text equals.
NullText == <<"<null>">>
\* ProviderError.status when the error has no HTTP status (undefined).
NoStatus == -1

(***************************************************************************)
(* JSON: a value is an object (its keys in insertion order; the member of  *)
(* key k is fixed by k), an array, a number, a string, a boolean or null.  *)
(* JSON text is a sequence of tokens: the brackets, the comma, a member    *)
(* token per key (the text of "k":v), and one token per scalar.            *)
(***************************************************************************)

JObject(keys) == [t |-> "object", keys |-> keys]
JOther(t) == [t |-> t, keys |-> <<>>]
\* undefined where a JSON value is expected.
JUndefined == JOther("undefined")

MemberTokens == {"a", "b"}
ScalarTokens == {"0", "1", "null", "true", "str"}

ScalarValue(token) ==
  CASE token \in {"0", "1"} -> JOther("number")
    [] token = "null" -> JOther("null")
    [] token = "true" -> JOther("boolean")
    [] OTHER -> JOther("string")

\* members is k1 , k2 , ... , kn with n >= 1.
IsMemberList(members) ==
  /\ Len(members) % 2 = 1
  /\ \A i \in 1..Len(members) :
       IF i % 2 = 1 THEN members[i] \in MemberTokens ELSE members[i] = ","

\* elements is v1 , v2 , ... , vn with n >= 1, every v a scalar.
IsScalarList(elements) ==
  /\ Len(elements) % 2 = 1
  /\ \A i \in 1..Len(elements) :
       IF i % 2 = 1 THEN elements[i] \in ScalarTokens ELSE elements[i] = ","

RECURSIVE DistinctKeys(_)
\* The keys of a member list in the order of their first occurrence.
DistinctKeys(members) ==
  IF members = <<>> THEN <<>>
  ELSE LET n == Len(members)
           before == DistinctKeys(SubSeq(members, 1, n - 1))
       IN  IF members[n] = "," \/ \E i \in 1..Len(before) : before[i] = members[n]
             THEN before
             ELSE Append(before, members[n])

\* JSON.parse: ok is FALSE when it throws.
JSONparse(text) ==
  LET n == Len(text) IN
  IF n = 1 /\ text[1] \in ScalarTokens
    THEN [ok |-> TRUE, val |-> ScalarValue(text[1])]
  ELSE IF text = <<"[", "]">>
          \/ (n >= 3 /\ text[1] = "[" /\ text[n] = "]"
                /\ IsScalarList(SubSeq(text, 2, n - 1)))
    THEN [ok |-> TRUE, val |-> JOther("array")]
  ELSE IF text = <<"{", "}">>
    THEN [ok |-> TRUE, val |-> JObject(<<>>)]
  ELSE IF n >= 3 /\ text[1] = "{" /\ text[n] = "}"
          /\ IsMemberList(SubSeq(text, 2, n - 1))
    THEN [ok |-> TRUE, val |-> JObject(DistinctKeys(SubSeq(text, 2, n - 1)))]
  ELSE [ok |-> FALSE, val |-> JOther("null")]

RECURSIVE JoinKeys(_)
JoinKeys(keys) ==
  IF Len(keys) <= 1 THEN keys
  ELSE JoinKeys(SubSeq(keys, 1, Len(keys) - 1)) \o <<",", keys[Len(keys)]>>

\* JSON.stringify of an object or an empty array.
JSONstringify(val) ==
  IF val.t = "object" THEN <<"{">> \o JoinKeys(val.keys) \o <<"}">>
  ELSE IF val.t = "array" THEN <<"[", "]">>
  ELSE <<"null">>

\* safeParseArguments: the parsed value when it is truthy and typeof gives
\* "object" (an object or an array), else {}; never throws.
safeParseArguments(raw) ==
  LET parsed == JSONparse(raw) IN
  IF parsed.ok /\ parsed.val.t \in {"object", "array"}
    THEN parsed.val ELSE JObject(<<>>)

(***************************************************************************)
(* providers/http.ts: the error taxonomy                                   *)
(***************************************************************************)

\* new ProviderError({code, status, retryable}); the message is left out.
ProviderError(code, status, retryable) ==
  [type |-> "ProviderError", code |-> code, status |-> status,
   retryable |-> retryable]

\* A thrown value that is not a ProviderError: type is "AbortError" (a
\* DOMException named AbortError), "DOMException" (any other name),
\* "TypeError" or "Error".
Thrown(type) ==
  [type |-> type, code |-> NoVal, status |-> NoStatus, retryable |-> FALSE]

NoError == Thrown(NoVal)

classifyHttpStatusError_Only401(status) ==
  IF status = 401
    THEN ProviderError("auth", status, FALSE)
  ELSE IF status = 429
    THEN ProviderError("rate_limit", status, TRUE)
  ELSE IF status >= 500
    THEN ProviderError("server", status, TRUE)
  ELSE IF status >= 400
    THEN ProviderError("bad_request", status, FALSE)
  ELSE ProviderError("unknown", status, FALSE)

classifyHttpStatusError(status) ==
  IF status = 401 \/ status = 403
    THEN ProviderError("auth", status, FALSE)
  ELSE IF status = 429
    THEN ProviderError("rate_limit", status, TRUE)
  ELSE IF status >= 500
    THEN ProviderError("server", status, TRUE)
  ELSE IF status >= 400
    THEN ProviderError("bad_request", status, FALSE)
  ELSE ProviderError("unknown", status, FALSE)

classifyProviderError_TypeErrorUnknown(err) ==
  IF err.type = "ProviderError" THEN err
  ELSE IF err.type = "AbortError" THEN ProviderError("timeout", NoStatus, TRUE)
  ELSE ProviderError("unknown", NoStatus, FALSE)

classifyProviderError(err) ==
  IF err.type = "ProviderError" THEN err
  ELSE IF err.type = "AbortError" THEN ProviderError("timeout", NoStatus, TRUE)
  ELSE IF err.type = "TypeError" THEN ProviderError("network", NoStatus, TRUE)
  ELSE ProviderError("unknown", NoStatus, FALSE)

(***************************************************************************)
(* providers/http.ts: backoff                                              *)
(***************************************************************************)

computeBackoffMs_NoClamp(attempt, retryBaseDelayMs, retryMaxDelayMs) ==
  LET exp == retryBaseDelayMs * 2 ^ (attempt - 1)
      jitter == exp \div 5
  IN  exp + jitter

\* Math.floor(exp * 0.2) is exp \div 5 for the integer delays modelled.
computeBackoffMs(attempt, retryBaseDelayMs, retryMaxDelayMs) ==
  LET exp == Min(retryMaxDelayMs, retryBaseDelayMs * 2 ^ (attempt - 1))
      jitter == exp \div 5
  IN  exp + jitter

(***************************************************************************)
(* Bounds and input sets                                                   *)
(***************************************************************************)

\* The HTTP statuses classified: 0..MaxStatus.
MaxStatus == 620
\* Backoff policies: 0 < base <= max <= MaxDelay, and the defaults.
MaxDelay == 12
\* Backoff attempts 1..MaxAttempt.
MaxAttempt == 7
\* Retry policies: maxRetries in 0..MaxMaxRetries, and the default.
MaxMaxRetries == 3

\* withRetry's defaults.
DefaultMaxRetries == 2
DefaultBaseDelayMs == 200
DefaultMaxDelayMs == 2000

\* Statuses a fetch can resolve with in the retry model.
OkStatuses == {200, 204}
ErrorStatuses == {301, 400, 401, 403, 404, 429, 500, 502, 503}
\* What fetch can reject with.
FetchRejections == {"AbortError", "TypeError", "DOMException", "Error"}

(***************************************************************************)
(* Specification SpecClassify: classifyHttpStatusError on every status     *)
(***************************************************************************)

ClInit == cl_status = NoStatus /\ cl_result = NoError

Classify(status) ==
  /\ cl_status' = status
  /\ cl_result' = classifyHttpStatusError(status)

(***************************************************************************)
(* Specification SpecBackoff: the delays of attempts 1, 2, ... of a policy *)
(***************************************************************************)

BoParked ==
  /\ bo_base = DefaultBaseDelayMs /\ bo_max = DefaultMaxDelayMs
  /\ bo_attempt = 0 /\ bo_delay = 0 /\ bo_prev = 0

BoInit ==
  /\ \E p \in {q \in (1..MaxDelay) \X (1..MaxDelay) : q[1] <= q[2]}
             \cup {<<DefaultBaseDelayMs, DefaultMaxDelayMs>>} :
       bo_base = p[1] /\ bo_max = p[2]
  /\ bo_attempt = 0 /\ bo_delay = 0 /\ bo_prev = 0

Backoff ==
  /\ bo_attempt < MaxAttempt
  /\ bo_attempt' = bo_attempt + 1
  /\ bo_prev' = bo_delay
  /\ bo_delay' = computeBackoffMs(bo_attempt + 1, bo_base, bo_max)
  /\ UNCHANGED <<bo_base, bo_max>>

(***************************************************************************)
(* Specification SpecRetry: fetchWithRetry, the operation it hands to      *)
(* withRetry, and withRetry's loop                                         *)
(***************************************************************************)

RtPolicies ==
  [maxRetries : 0..MaxMaxRetries, base : {1}, max : {2, 8}]
    \cup {[maxRetries |-> DefaultMaxRetries, base |-> DefaultBaseDelayMs,
           max |-> DefaultMaxDelayMs]}

RtStart(policy) ==
  /\ rt_policy = policy
  /\ rt_pc = "loop" /\ rt_attempt = 0 /\ rt_timer = 0
  /\ rt_thrown = NoError /\ rt_error = NoError /\ rt_details = NoVal
  /\ rt_sleeps = <<>> /\ rt_result = NoStatus /\ rt_calls = 0
  /\ rt_failed = 0 /\ rt_ok = 0 /\ rt_lastStatus = NoStatus

RtParked == RtStart([maxRetries |-> DefaultMaxRetries,
                     base |-> DefaultBaseDelayMs, max |-> DefaultMaxDelayMs])

RtInit == \E policy \in RtPolicies : RtStart(policy)

\* http.ts:155, the catch block's decision to give up.
ShouldThrow_IgnoreRetryable(providerError, attempt, maxRetries) ==
  attempt > maxRetries + 1

ShouldThrow_NeverGiveUp(providerError, attempt, maxRetries) ==
  ~providerError.retryable

ShouldThrow(providerError, attempt, maxRetries) ==
  ~providerError.retryable \/ attempt > maxRetries + 1

\* http.ts:180 and 196-198: rt_timer is the number of timeouts armed by the
\* call. The operation arms one for its own controller, and its finally
\* clears that one on every way out of the try.
setTimeout(timers) == timers + 1

clearTimeout_Leak(timers) == timers

clearTimeout(timers) == IF timers > 0 THEN timers - 1 ELSE 0

\* withRetry's loop head and the start of the operation: attempt += 1, a new
\* AbortController, the timeout armed, fetch called.
AttemptStart ==
  /\ rt_pc = "loop"
  /\ rt_attempt' = rt_attempt + 1
  /\ rt_calls' = rt_calls + 1
  /\ rt_timer' = setTimeout(rt_timer)
  /\ rt_pc' = "fetching"
  /\ UNCHANGED <<rt_policy, rt_thrown, rt_error, rt_details, rt_sleeps,
                 rt_result, rt_failed, rt_ok, rt_lastStatus>>

\* withRetry's catch block for the thrown value err.
Catch(err) ==
  LET providerError == classifyProviderError(err) IN
  /\ rt_thrown' = err
  /\ rt_error' = providerError
  /\ rt_failed' = rt_failed + 1
  /\ IF ShouldThrow(providerError, rt_attempt, rt_policy.maxRetries)
       THEN rt_pc' = "raised" /\ rt_sleeps' = rt_sleeps
       ELSE /\ rt_pc' = "sleeping"
            /\ rt_sleeps' = Append(rt_sleeps,
                 computeBackoffMs(rt_attempt, rt_policy.base, rt_policy.max))

\* fetch resolves with a 2xx response: the finally clears the timeout and
\* withRetry returns the response.
PcAfterSuccess_KeepLooping == "loop"

PcAfterSuccess == "returned"

FetchOk(status) ==
  /\ rt_pc = "fetching"
  /\ rt_timer' = clearTimeout(rt_timer)
  /\ rt_result' = status
  /\ rt_pc' = PcAfterSuccess
  /\ rt_ok' = rt_ok + 1
  /\ rt_lastStatus' = status
  /\ UNCHANGED <<rt_policy, rt_attempt, rt_thrown, rt_error, rt_details,
                 rt_sleeps, rt_calls, rt_failed>>

\* fetch resolves with a non-2xx response: the body is read best-effort
\* (bodyReadable tells whether res.text() succeeds), the status is
\* classified and thrown, the finally clears the timeout.
DetailsAfterBodyRead(bodyReadable) == IF bodyReadable THEN "body" ELSE ""

\* http.ts:186-194: what the operation throws for a non-2xx response. A
\* rejected res.text() is swallowed by the inner catch, so the status is
\* classified and thrown whether or not the body could be read.
ThrownForStatus_BodyErrorEscapes(status, bodyReadable) ==
  IF bodyReadable THEN classifyHttpStatusError(status) ELSE Thrown("TypeError")

ThrownForStatus(status, bodyReadable) == classifyHttpStatusError(status)

FetchHttpError(status, bodyReadable) ==
  /\ rt_pc = "fetching"
  /\ rt_timer' = clearTimeout(rt_timer)
  /\ rt_details' = DetailsAfterBodyRead(bodyReadable)
  /\ rt_lastStatus' = status
  /\ Catch(ThrownForStatus(status, bodyReadable))
  /\ UNCHANGED <<rt_policy, rt_attempt, rt_result, rt_calls, rt_ok>>

\* fetch rejects (abort by the timeout, connection failure, anything else).
FetchRejects(type) ==
  /\ rt_pc = "fetching"
  /\ rt_timer' = clearTimeout(rt_timer)
  /\ rt_lastStatus' = NoStatus
  /\ Catch(Thrown(type))
  /\ UNCHANGED <<rt_policy, rt_attempt, rt_details, rt_result, rt_calls,
                 rt_ok>>

\* The backoff sleep ends and the loop goes round.
SleepDone ==
  /\ rt_pc = "sleeping"
  /\ rt_pc' = "loop"
  /\ UNCHANGED <<rt_policy, rt_attempt, rt_timer, rt_thrown, rt_error,
                 rt_details, rt_sleeps, rt_result, rt_calls, rt_failed, rt_ok,
                 rt_lastStatus>>

(***************************************************************************)
(* agent/loop.ts: AgentLoop.runOnce and AgentLoop.runOnceStream, with      *)
(* agent/session.ts for the session the turn ends in.                      *)
(* lp_mode is "runOnce", "stream" (runOnceStream with provider.stream) or  *)
(* "chat" (runOnceStream with a provider that has no stream).              *)
(* lp_listener is "none" (no onEvent), "ok" or "throws".                   *)
(***************************************************************************)

maxIterations == 4

\* The fragments one provider stream yields: at most MaxFrags.
MaxFrags == 2

Msg(role, content) ==
  [role |-> role, content |-> content, tool_call_id |-> NoVal, name |-> NoVal,
   tool_calls |-> <<>>]

SystemMessage == Msg("system", <<"You are a helpful assistant.">>)

\* call.arguments ?? {}
ArgumentsOrEmpty(arguments) ==
  IF arguments = JUndefined THEN JObject(<<>>) ELSE arguments

AssistantToolCallMessage(content, toolCalls) ==
  [role |-> "assistant", content |-> content, tool_call_id |-> NoVal,
   name |-> NoVal,
   tool_calls |->
     [i \in 1..Len(toolCalls) |->
        [id |-> toolCalls[i].id, type |-> "function",
         function |->
           [name |-> toolCalls[i].name,
            arguments |->
              JSONstringify(ArgumentsOrEmpty(toolCalls[i].arguments))]]]]

ToolMessage_Unlabelled(toolCall, result) ==
  [role |-> "tool", content |-> result, tool_call_id |-> NoVal,
   name |-> NoVal, tool_calls |-> <<>>]

ToolMessage(toolCall, result) ==
  [role |-> "tool", content |-> result, tool_call_id |-> toolCall.id,
   name |-> toolCall.name, tool_calls |-> <<>>]

SessionMessage(role, content) == [role |-> role, content |-> content]

getUnsavedMessages_All(messages, lastSavedIndex) == messages

\* Session.getUnsavedMessages: this.messages.slice(this.lastSavedIndex)
getUnsavedMessages(messages, lastSavedIndex) ==
  SubSeq(messages, lastSavedIndex + 1, Len(messages))

HasToolCalls_Never(toolCalls) == FALSE

\* toolCalls && toolCalls.length > 0: the code reads a tool-call list only
\* behind this test, so an absent list is modelled as the empty one.
HasToolCalls(toolCalls) == Len(toolCalls) > 0

\* typeof content === "string" && content.length > 0
IsNonEmptyString(content) == content # NullText /\ Len(content) > 0

\* content ?? ""
ContentOrEmpty(content) == IF content = NullText THEN <<>> ELSE content

\* streamedContent || null
ContentOrNull(content) == IF content = <<>> THEN NullText ELSE content

\* The inputs of a turn.
ToolCallA ==
  [id |-> "call_a", name |-> "read_file", arguments |-> JObject(<<"a">>)]
ToolCallB == [id |-> "call_b", name |-> "exec", arguments |-> JObject(<<>>)]
ToolCallLists == {<<ToolCallA>>, <<ToolCallB, ToolCallA>>}
Contents == {NullText, <<>>, <<"A">>}
\* An LLMResponse, whole or a fragment of a stream.
Responses == [content : Contents, toolCalls : {<<>>} \cup ToolCallLists]
\* What tools.execute resolves with: a text that tells the tools apart.
ToolResults == {<<"R", "read_file">>, <<"R", "exec">>}
ResultOf(toolCall) == <<"R", toolCall.name>>
UserContents == {<<"U">>}
\* The session as loaded: new, or holding one earlier turn.
Histories ==
  {<<>>, <<SessionMessage("user", <<"U0">>),
           SessionMessage("assistant", <<"A0">>)>>}

LpStart(history) ==
  /\ lp_pc = "idle" /\ lp_mode = NoVal /\ lp_listener = NoVal
  /\ lp_userContent = NullText /\ lp_messages = <<>>
  /\ lp_finalContent = NullText
  /\ lp_iteration = 0 /\ lp_toolCalls = <<>> /\ lp_streamedContent = <<>>
  /\ lp_next = 0
  /\ lp_session = history /\ lp_lastSavedIndex = Len(history)
  /\ lp_file = history
  /\ lp_returned = NullText /\ lp_deltas = <<>> /\ lp_events = <<>>
  /\ lp_providerCalls = 0 /\ lp_sent = <<>> /\ lp_streamOpen = FALSE
  /\ lp_frags = 0 /\ lp_lastToolFrag = <<>>
  /\ lp_lastResponseHadTools = FALSE /\ lp_execs = <<>>
  /\ lp_lastContent = NullText /\ lp_inFlight = {}

LpParked == LpStart(<<>>)

LpInit == \E history \in Histories : LpStart(history)

\* onEvent?.(event), for a sequence of events: the events the listener was
\* called with, up to and including the first one if the listener throws.
Emitted(events) ==
  IF lp_listener = "none" \/ lp_mode = "runOnce" \/ events = <<>> THEN <<>>
  ELSE IF lp_listener = "throws" THEN <<events[1]>>
  ELSE events

\* Whether emitting these events throws.
EmitThrows(events) ==
  lp_listener = "throws" /\ lp_mode # "runOnce" /\ events # <<>>

Event(type, name) == [type |-> type, name |-> name]

\* The entry points: runOnce, runOnceStream over a provider with stream, and
\* runOnceStream over a provider without.
Modes == {"runOnce", "stream", "chat"}

\* The onEvent argument; runOnce takes none.
Listeners == {"none", "ok", "throws"}

\* The awaited steps of a turn that have started and not ended: provider
\* call n of the turn, the execution of tool call i of the response.
InFlightProvider(n) == [kind |-> "provider", n |-> n]
InFlightTool(i) == [kind |-> "tool", n |-> i]

\* await provider.chat / the for await over provider.stream has ended.
ProviderAnswered(inFlight) == {step \in inFlight : step.kind # "provider"}

ToolsStarted_AllAtOnce(toolCalls, next) ==
  {InFlightTool(i) : i \in next..Len(toolCalls)}

\* for (const toolCall of toolCalls) { await this.tools.execute(...) }:
\* the execution the for is at, if the list has one left.
ToolsStarted(toolCalls, next) ==
  IF next <= Len(toolCalls) THEN {InFlightTool(next)} ELSE {}

SessionAtBegin_AddsUser(session, userContent) ==
  Append(session, SessionMessage("user", userContent))

\* The session when the loop begins: as getOrCreate gave it; the turn's
\* messages are built in a list of their own.
SessionAtBegin(session, userContent) == session

InitialMessages_NoHistory(session, userContent) ==
  <<SystemMessage, Msg("user", userContent)>>

\* loop.ts:286-296 (and 219-229 in runOnce): the session's history as role
\* and content, between the system preamble and the new user message.
InitialMessages(session, userContent) ==
  <<SystemMessage>>
    \o [i \in 1..Len(session) |-> Msg(session[i].role, session[i].content)]
    \o <<Msg("user", userContent)>>

\* runOnce / runOnceStream up to the loop.
Begin(mode, listener, userContent) ==
  /\ lp_pc = "idle"
  /\ mode = "runOnce" => listener = "none"
  /\ lp_mode' = mode /\ lp_listener' = listener
  /\ lp_userContent' = userContent
  /\ lp_messages' = InitialMessages(lp_session, userContent)
  /\ lp_finalContent' = IF mode = "runOnce" THEN NullText ELSE <<>>
  /\ lp_iteration' = 0
  /\ lp_pc' = "loop"
  /\ lp_session' = SessionAtBegin(lp_session, userContent)
  /\ UNCHANGED <<lp_toolCalls, lp_streamedContent, lp_next,
                 lp_lastSavedIndex, lp_file, lp_returned, lp_deltas,
                 lp_events, lp_providerCalls, lp_sent, lp_streamOpen,
                 lp_frags, lp_lastToolFrag, lp_lastResponseHadTools, lp_lastContent,
                 lp_inFlight,
                 lp_execs>>

StreamedAtCall_Kept(streamedContent) == streamedContent

\* loop.ts:309: let streamedContent = "", in every iteration.
StreamedAtCall(streamedContent) == <<>>

LoopCondition_OneMore(iteration) == iteration <= maxIterations

\* while (iteration < this.maxIterations)
LoopCondition(iteration) == iteration < maxIterations

\* The loop's head: leave the loop, or count the iteration, emit the status
\* event and call the provider (chat, or stream and its for await).
LoopHead ==
  /\ lp_pc = "loop"
  /\ IF ~LoopCondition(lp_iteration)
       THEN /\ lp_pc' = "finish"
            /\ UNCHANGED <<lp_iteration, lp_events, lp_providerCalls, lp_sent,
                           lp_inFlight,
                           lp_streamOpen, lp_toolCalls, lp_streamedContent,
                           lp_frags, lp_lastToolFrag, lp_execs>>
       ELSE /\ lp_iteration' = lp_iteration + 1
            /\ lp_events' = lp_events \o Emitted(<<Event("status", NoVal)>>)
            /\ lp_execs' = <<>>
            /\ IF EmitThrows(<<Event("status", NoVal)>>)
                 THEN /\ lp_pc' = "raised"
                      /\ UNCHANGED <<lp_providerCalls, lp_sent, lp_streamOpen,
                                     lp_inFlight,
                                     lp_toolCalls, lp_streamedContent,
                                     lp_frags, lp_lastToolFrag>>
                 ELSE /\ lp_providerCalls' = lp_providerCalls + 1
                      /\ lp_inFlight' =
                           lp_inFlight
                             \cup {InFlightProvider(lp_providerCalls + 1)}
                      /\ lp_sent' = lp_messages
                      /\ IF lp_mode = "stream"
                           THEN /\ lp_pc' = "stream"
                                /\ lp_streamOpen' = TRUE
                                /\ lp_toolCalls' = <<>>
                                /\ lp_streamedContent' =
                                     StreamedAtCall(lp_streamedContent)
                                /\ lp_frags' = 0
                                /\ lp_lastToolFrag' = <<>>
                           ELSE /\ lp_pc' = "chat"
                                /\ UNCHANGED <<lp_streamOpen, lp_toolCalls,
                                               lp_streamedContent, lp_frags,
                                               lp_lastToolFrag>>
  /\ UNCHANGED <<lp_mode, lp_listener, lp_userContent, lp_messages,
                 lp_finalContent, lp_next, lp_session, lp_lastSavedIndex,
                 lp_file, lp_returned, lp_deltas, lp_lastResponseHadTools, lp_lastContent>>

ObParked == ob_mark = 0

\* The loop's head, with the number of onDelta calls made so far noted
\* when it calls the provider.
LoopHeadNoted ==
  /\ LoopHead
  /\ ob_mark' = IF lp_providerCalls' # lp_providerCalls
                  THEN Len(lp_deltas) ELSE ob_mark

\* The tool_call events of runOnceStream, one per call, before any runs.
ToolCallEvents(toolCalls) ==
  [i \in 1..Len(toolCalls) |-> Event("tool_call", toolCalls[i].name)]

\* The branch taken on a response that carries tool calls: the events, the
\* assistant message, then the first tool.
TakeToolCalls(content, toolCalls) ==
  /\ lp_events' = lp_events \o Emitted(ToolCallEvents(toolCalls))
  /\ IF EmitThrows(ToolCallEvents(toolCalls))
       THEN /\ lp_pc' = "raised"
            /\ lp_inFlight' = ProviderAnswered(lp_inFlight)
            /\ UNCHANGED <<lp_messages, lp_next>>
       ELSE /\ lp_messages' =
                 Append(lp_messages, AssistantToolCallMessage(content, toolCalls))
            /\ lp_next' = 1
            /\ lp_inFlight' =
                 ProviderAnswered(lp_inFlight) \cup ToolsStarted(toolCalls, 1)
            /\ lp_pc' = "tools"

\* provider.chat resolves with response.
ChatReturns(response) ==
  /\ lp_pc = "chat"
  /\ lp_lastResponseHadTools' = (Len(response.toolCalls) > 0)
  /\ lp_lastContent' = response.content
  /\ IF HasToolCalls(response.toolCalls)
       THEN /\ TakeToolCalls(response.content, response.toolCalls)
            /\ lp_toolCalls' = response.toolCalls
            /\ UNCHANGED <<lp_finalContent, lp_deltas>>
       ELSE /\ lp_finalContent' = ContentOrEmpty(response.content)
            /\ lp_deltas' =
                 IF lp_mode = "chat" /\ IsNonEmptyString(response.content)
                   THEN Append(lp_deltas, response.content)
                   ELSE lp_deltas
            /\ lp_pc' = "finish"
            /\ lp_inFlight' = ProviderAnswered(lp_inFlight)
            /\ UNCHANGED <<lp_messages, lp_next, lp_toolCalls, lp_events>>
  /\ UNCHANGED <<lp_mode, lp_listener, lp_userContent, lp_iteration,
                 lp_streamedContent, lp_session, lp_lastSavedIndex, lp_file,
                 lp_returned, lp_providerCalls, lp_sent, lp_streamOpen,
                 lp_frags, lp_lastToolFrag, lp_execs>>

\* provider.chat rejects, or the provider's stream throws.
ProviderRaises ==
  /\ lp_pc \in {"chat", "stream"}
  /\ lp_pc' = "raised"
  /\ lp_streamOpen' = FALSE
  /\ lp_inFlight' = ProviderAnswered(lp_inFlight)
  /\ UNCHANGED <<lp_mode, lp_listener, lp_userContent, lp_messages,
                 lp_finalContent, lp_iteration, lp_toolCalls,
                 lp_streamedContent, lp_next, lp_session, lp_lastSavedIndex,
                 lp_file, lp_returned, lp_deltas, lp_events, lp_providerCalls,
                 lp_sent, lp_frags, lp_lastToolFrag, lp_lastResponseHadTools, lp_lastContent,
                 lp_execs>>

ToolCallsAfterChunk_KeepFirst(toolCalls, chunk) ==
  IF HasToolCalls(chunk.toolCalls) /\ toolCalls = <<>>
    THEN chunk.toolCalls ELSE toolCalls

\* loop.ts:319-321
ToolCallsAfterChunk(toolCalls, chunk) ==
  IF HasToolCalls(chunk.toolCalls) THEN chunk.toolCalls ELSE toolCalls

StreamedAfterChunk_Replace(streamedContent, chunk) ==
  IF IsNonEmptyString(chunk.content) THEN chunk.content ELSE streamedContent

\* loop.ts:315-317: streamedContent += chunk.content
StreamedAfterChunk(streamedContent, chunk) ==
  IF IsNonEmptyString(chunk.content)
    THEN streamedContent \o chunk.content ELSE streamedContent

PcAfterChunk_RunToolsAtOnce(chunk) ==
  IF HasToolCalls(chunk.toolCalls) THEN "tools" ELSE "stream"

\* The for await goes on to the stream's next fragment.
PcAfterChunk(chunk) == "stream"

\* The provider's stream yields chunk: the body of the for await.
StreamChunk(chunk) ==
  /\ lp_pc = "stream"
  /\ lp_frags < MaxFrags
  /\ lp_frags' = lp_frags + 1
  /\ lp_streamedContent' = StreamedAfterChunk(lp_streamedContent, chunk)
  /\ lp_deltas' = IF IsNonEmptyString(chunk.content)
                    THEN Append(lp_deltas, chunk.content) ELSE lp_deltas
  /\ lp_toolCalls' = ToolCallsAfterChunk(lp_toolCalls, chunk)
  /\ lp_lastToolFrag' =
       IF HasToolCalls(chunk.toolCalls) THEN chunk.toolCalls
       ELSE lp_lastToolFrag
  /\ lp_pc' = PcAfterChunk(chunk)
  /\ lp_next' = IF PcAfterChunk(chunk) = "tools" THEN 1 ELSE lp_next
  /\ UNCHANGED <<lp_mode, lp_listener, lp_userContent, lp_messages,
                 lp_finalContent, lp_iteration, lp_session, lp_lastSavedIndex,
                 lp_file, lp_returned, lp_events, lp_providerCalls, lp_sent,
                 lp_streamOpen, lp_lastResponseHadTools, lp_lastContent,
                 lp_inFlight, lp_execs>>

\* The provider's stream ends: the code after the for await.
StreamEnds ==
  /\ lp_pc = "stream"
  /\ lp_streamOpen' = FALSE
  /\ lp_lastResponseHadTools' = (Len(lp_toolCalls) > 0)
  /\ lp_lastContent' = lp_streamedContent
  /\ IF HasToolCalls(lp_toolCalls)
       THEN /\ TakeToolCalls(ContentOrNull(lp_streamedContent), lp_toolCalls)
            /\ UNCHANGED lp_finalContent
       ELSE /\ lp_finalContent' = lp_streamedContent
            /\ lp_pc' = "finish"
            /\ lp_inFlight' = ProviderAnswered(lp_inFlight)
            /\ UNCHANGED <<lp_messages, lp_next, lp_events>>
  /\ UNCHANGED <<lp_mode, lp_listener, lp_userContent, lp_iteration,
                 lp_toolCalls, lp_streamedContent, lp_session,
                 lp_lastSavedIndex, lp_file, lp_returned, lp_deltas,
                 lp_providerCalls, lp_sent, lp_frags, lp_lastToolFrag,
                 lp_execs>>

\* What one execution of a tool leaves for the claims: the call and whether
\* the provider's stream was still being consumed.
Execution(toolCall, result) ==
  [call |-> toolCall, streamOpen |-> lp_streamOpen, result |-> result]

\* tools.execute resolves with result for the call in turn.
ToolReturns(result) ==
  LET toolCall == lp_toolCalls[lp_next]
      events == <<Event("tool_result", toolCall.name),
                  Event("tool_error", toolCall.name)>>
  IN
  /\ lp_pc = "tools"
  /\ result = ResultOf(toolCall)
  /\ lp_execs' = Append(lp_execs, Execution(toolCall, result))
  /\ IF EmitThrows(events)
       THEN \* the listener's throw is caught, reported to the listener as a
            \* tool_error, and that call's throw ends the turn
            /\ lp_events' = lp_events \o events
            /\ lp_pc' = "raised"
            /\ lp_inFlight' = lp_inFlight \ {InFlightTool(lp_next)}
            /\ UNCHANGED <<lp_messages, lp_next, lp_finalContent>>
       ELSE /\ lp_events' = lp_events \o Emitted(<<events[1]>>)
            /\ lp_messages' = Append(lp_messages, ToolMessage(toolCall, result))
            /\ lp_next' = lp_next + 1
            /\ lp_inFlight' =
                 (lp_inFlight \ {InFlightTool(lp_next)})
                   \cup ToolsStarted(lp_toolCalls, lp_next + 1)
            /\ IF lp_next = Len(lp_toolCalls)
                 THEN /\ lp_pc' = "loop"
                      /\ lp_finalContent' =
                           IF lp_mode = "stream" THEN <<>> ELSE lp_finalContent
                 ELSE UNCHANGED <<lp_pc, lp_finalContent>>
  /\ UNCHANGED <<lp_mode, lp_listener, lp_userContent, lp_iteration,
                 lp_toolCalls, lp_streamedContent, lp_session,
                 lp_lastSavedIndex, lp_file, lp_returned, lp_deltas,
                 lp_providerCalls, lp_sent, lp_streamOpen, lp_frags,
                 lp_lastToolFrag, lp_lastResponseHadTools, lp_lastContent>>

PcAfterToolError_NextTool(next, count) ==
  IF next = count THEN "loop" ELSE "tools"

\* throw err in the catch of runOnceStream; runOnce has no catch and the
\* rejection leaves the loop as it is.
PcAfterToolError(next, count) == "raised"

\* tools.execute rejects (the tool fails, or no tool has that name).
ToolRaises ==
  LET toolCall == lp_toolCalls[lp_next] IN
  /\ lp_pc = "tools"
  /\ lp_execs' = Append(lp_execs, Execution(toolCall, NullText))
  /\ lp_events' = lp_events \o Emitted(<<Event("tool_error", toolCall.name)>>)
  /\ lp_pc' = PcAfterToolError(lp_next, Len(lp_toolCalls))
  /\ lp_inFlight' = lp_inFlight \ {InFlightTool(lp_next)}
  /\ UNCHANGED <<lp_mode, lp_listener, lp_userContent, lp_messages,
                 lp_finalContent, lp_iteration, lp_toolCalls,
                 lp_streamedContent, lp_next, lp_session, lp_lastSavedIndex,
                 lp_file, lp_returned, lp_deltas, lp_providerCalls, lp_sent,
                 lp_streamOpen, lp_frags, lp_lastToolFrag,
                 lp_lastResponseHadTools, lp_lastContent>>

\* After the loop: the two addMessage calls, SessionManager.save (append
\* the unsaved messages to the file, markSaved) and the return.
Finish ==
  LET final == ContentOrEmpty(lp_finalContent)
      session == lp_session \o <<SessionMessage("user", lp_userContent),
                                 SessionMessage("assistant", final)>>
      toSave == getUnsavedMessages(session, lp_lastSavedIndex)
  IN
  /\ lp_pc = "finish"
  /\ lp_session' = session
  /\ lp_file' = lp_file \o toSave
  /\ lp_lastSavedIndex' = Len(session)
  /\ lp_returned' = final
  /\ lp_pc' = "returned"
  /\ UNCHANGED <<lp_mode, lp_listener, lp_userContent, lp_messages,
                 lp_finalContent, lp_iteration, lp_toolCalls,
                 lp_streamedContent, lp_next, lp_deltas, lp_events,
                 lp_providerCalls, lp_sent, lp_streamOpen, lp_frags,
                 lp_lastToolFrag, lp_lastResponseHadTools, lp_lastContent,
                 lp_inFlight, lp_execs>>

(***************************************************************************)
(* providers/adapters: stream() of OpenAIProvider (openai.ts; the          *)
(* OpenRouterProvider subclass inherits it) and of AnthropicProvider       *)
(* (openrouter.ts).                                                        *)
(* The response body is a sequence of tokens: the "data:" prefix of a      *)
(* line, the newline, and one token per payload (a vendor event that is    *)
(* valid JSON, the [DONE] marker, text that is not JSON) or per line that  *)
(* is not a data line.  A network chunk is any run of tokens.              *)
(***************************************************************************)

\* The chunks one response body is read in: at most MaxChunks.
MaxChunks == 3

\* A vendor event as parsed from a data line.  An OpenAI event (type
\* "chunk") has choices[0].delta.content in text, choices[0].finish_reason
\* in stop and choices[0].delta.tool_calls in deltas.  An Anthropic event
\* has its type, index, the type of its content_block or delta in
\* blockType, the block's or delta's text, the block's id, name and input,
\* the delta's partial_json in json and its stop_reason in stop.
EventBase ==
  [type |-> "ping", index |-> 0, blockType |-> NoVal, text |-> NullText,
   id |-> NoVal, name |-> NoVal, json |-> NullText, input |-> JUndefined,
   stop |-> NoVal, deltas |-> <<>>]

Tok(k) == [k |-> k, ev |-> EventBase]
EvTok(ev) == [k |-> "event", ev |-> ev]
NL == Tok("nl")
DataPrefix == Tok("data:")
DataLine(ev) == <<DataPrefix, EvTok(ev), NL>>

\* The JSON text of an event in two pieces, for a payload that reaches
\* stream() in more than one chunk or is cut short.
EvHead(ev) == [k |-> "event-head", ev |-> ev]
EvTail(ev) == [k |-> "event-tail", ev |-> ev]
SplitDataLine(ev) == <<DataPrefix, EvHead(ev), EvTail(ev), NL>>

\* JSON.parse(data) returns: data is the text of one event, whole or in
\* its two pieces.  It throws on anything else.
IsJsonPayload(data) ==
  \/ Len(data) = 1 /\ data[1].k = "event"
  \/ /\ Len(data) = 2
     /\ data[1].k = "event-head" /\ data[2].k = "event-tail"
     /\ data[1].ev = data[2].ev

ParsedPayload(data) == data[1].ev

\* One entry of delta.tool_calls.
ToolCallDelta(index, id, name, arguments) ==
  [index |-> index, id |-> id, name |-> name, arguments |-> arguments]

OpenAIChunk(text, deltas, stop) ==
  [EventBase EXCEPT !.type = "chunk", !.text = text, !.deltas = deltas,
                    !.stop = stop]

ContentBlockStart(index, blockType, text, id, name, input) ==
  [EventBase EXCEPT !.type = "content_block_start", !.index = index,
                    !.blockType = blockType, !.text = text, !.id = id,
                    !.name = name, !.input = input]

ContentBlockDelta(index, blockType, text, json) ==
  [EventBase EXCEPT !.type = "content_block_delta", !.index = index,
                    !.blockType = blockType, !.text = text, !.json = json]

MessageEvent(type, stop) == [EventBase EXCEPT !.type = type, !.stop = stop]

\* A string that is present and not empty.
Truthy(str) == str # NoVal /\ str # ""

\* `tool_${n}`
FallbackId(n) ==
  CASE n = 0 -> "tool_0" [] n = 1 -> "tool_1" [] n = 2 -> "tool_2"
    [] OTHER -> "tool_n"

\* An LLMResponse; toolCalls is empty when the fragment has none.
Fragment(content, toolCalls, finishReason) ==
  [content |-> content, toolCalls |-> toolCalls, finishReason |-> finishReason]

\* A fragment as the consumer received it: before or after the for await
\* over the body had ended.
Yielded(fragment, bodyEnded) ==
  [fragment |-> fragment, bodyEnded |-> bodyEnded]

\* An entry of toolCallState (OpenAI; type is always "tool_use") or of
\* contentBlocks (Anthropic), with its key.  The map is the sequence of its
\* entries in insertion order.
Block(index, type, id, name, args) ==
  [index |-> index, type |-> type, id |-> id, name |-> name, args |-> args]

\* Map.get: the position of the entry of a key, 0 when there is none.
BlockPos(blocks, index) ==
  IF \E i \in 1..Len(blocks) : blocks[i].index = index
    THEN CHOOSE i \in 1..Len(blocks) : blocks[i].index = index
    ELSE 0

\* Map.set: a key already present keeps its place.
SetBlock(blocks, block) ==
  LET p == BlockPos(blocks, block.index) IN
  IF p = 0 THEN Append(blocks, block) ELSE [blocks EXCEPT ![p] = block]

\* openai.ts:195-199: the entry a first delta of an index starts from.
NewToolCallState(delta) ==
  Block(delta.index, "tool_use",
        IF delta.id = NoVal THEN FallbackId(delta.index) ELSE delta.id,
        IF delta.name = NoVal THEN "" ELSE delta.name,
        <<>>)

MergeToolCallDelta_ReplaceArguments(existing, delta) ==
  [existing EXCEPT
     !.id = IF Truthy(delta.id) THEN delta.id ELSE @,
     !.name = IF Truthy(delta.name) THEN delta.name ELSE @,
     !.args = IF IsNonEmptyString(delta.arguments)
                THEN delta.arguments ELSE @]

\* openai.ts:201-207
MergeToolCallDelta(existing, delta) ==
  [existing EXCEPT
     !.id = IF Truthy(delta.id) THEN delta.id ELSE @,
     !.name = IF Truthy(delta.name) THEN delta.name ELSE @,
     !.args = IF IsNonEmptyString(delta.arguments)
                THEN @ \o delta.arguments ELSE @]

\* The body of the for over delta.tool_calls.
ToolCallStateAfterDelta(blocks, delta) ==
  LET p == BlockPos(blocks, delta.index)
      existing == IF p = 0 THEN NewToolCallState(delta) ELSE blocks[p]
  IN  SetBlock(blocks, MergeToolCallDelta(existing, delta))

RECURSIVE ApplyToolCallDeltas(_, _)
ApplyToolCallDeltas(blocks, deltas) ==
  IF deltas = <<>> THEN blocks
  ELSE ApplyToolCallDeltas(ToolCallStateAfterDelta(blocks, Head(deltas)),
                           Tail(deltas))

\* openai.ts:216-222
OpenAIToolCalls(blocks) ==
  [i \in 1..Len(blocks) |->
     [id |-> blocks[i].id, name |-> blocks[i].name,
      arguments |-> safeParseArguments(blocks[i].args)]]

RECURSIVE AnthropicToolCalls(_, _)
\* openrouter.ts:378-386
AnthropicToolCalls(blocks, toolCalls) ==
  IF blocks = <<>> THEN toolCalls
  ELSE LET block == Head(blocks) IN
       AnthropicToolCalls(
         Tail(blocks),
         IF block.type # "tool_use" THEN toolCalls
         ELSE Append(toolCalls,
                [id |-> IF block.id = "" THEN FallbackId(Len(toolCalls))
                        ELSE block.id,
                 name |-> block.name,
                 arguments |->
                   safeParseArguments(IF block.args = <<>> THEN <<"{", "}">>
                                      ELSE block.args)]))

\* The tool calls stream() assembles from its map once the body has ended.
AssembledToolCalls(adapter, blocks) ==
  IF adapter = "openai" THEN OpenAIToolCalls(blocks)
  ELSE AnthropicToolCalls(blocks, <<>>)

\* The locals of one stream() call, as the line handlers read and write
\* them: s.adapter, s.buffer, s.blocks, s.finishReason, s.yielded, and
\* s.deltas, the tool-call deltas the OpenAI handler was given, in order
\* (for the Anthropic handler the tool_use block starts and the
\* input_json_delta events),
\* and s.reported, whether an event carried a finish reason.

YieldText_WithToolCalls(s, content, finishReason) ==
  [s EXCEPT !.yielded =
     Append(@, Yielded(Fragment(content,
                                AssembledToolCalls(s.adapter, s.blocks),
                                finishReason), FALSE))]

\* yield { content, finishReason } inside the for await.
YieldText(s, content, finishReason) ==
  [s EXCEPT !.yielded =
     Append(@, Yielded(Fragment(content, <<>>, finishReason), FALSE))]

\* finishReason ?? fallback
FinishReasonOr(finishReason, fallback) ==
  IF finishReason = NoVal THEN fallback ELSE finishReason

\* openai.ts:181-211: one parsed event.
OpenAIEvent(s, ev) ==
  LET finishReason == FinishReasonOr(ev.stop, s.finishReason)
      s1 == [s EXCEPT !.finishReason = finishReason]
      s2 == IF IsNonEmptyString(ev.text)
              THEN YieldText(s1, ev.text,
                             FinishReasonOr(finishReason, "streaming"))
              ELSE s1
  IN  [s2 EXCEPT !.blocks = ApplyToolCallDeltas(@, ev.deltas),
                 !.deltas = @ \o ev.deltas,
                 !.reported = @ \/ ev.stop # NoVal]

\* openrouter.ts:337-342
ToolUseBlock(ev) ==
  Block(ev.index, "tool_use",
        IF ev.id = NoVal THEN FallbackId(ev.index) ELSE ev.id,
        IF ev.name = NoVal THEN "" ELSE ev.name,
        IF ev.input = JUndefined THEN <<>> ELSE JSONstringify(ev.input))

\* openrouter.ts:355-368
InputJsonDelta(blocks, ev) ==
  LET p == BlockPos(blocks, ev.index) IN
  IF p # 0 /\ blocks[p].type = "tool_use"
    THEN [blocks EXCEPT ![p].args = @ \o ev.json]
    ELSE SetBlock(blocks,
                  Block(ev.index, "tool_use", FallbackId(ev.index), "",
                        ev.json))

\* openrouter.ts:310-376: one parsed event.
AnthropicEvent(s, ev) ==
  CASE ev.type \in {"message_start", "message_delta"} ->
         IF Truthy(ev.stop)
           THEN [s EXCEPT !.finishReason = ev.stop, !.reported = TRUE]
           ELSE s
    [] ev.type = "content_block_start" /\ ev.blockType = "text" ->
         LET s1 == [s EXCEPT !.blocks =
                      SetBlock(@, Block(ev.index, "text", "", "", <<>>))]
         IN  IF IsNonEmptyString(ev.text)
               THEN YieldText(s1, ev.text, "streaming")
               ELSE s1
    [] ev.type = "content_block_start" /\ ev.blockType = "tool_use" ->
         [s EXCEPT !.blocks = SetBlock(@, ToolUseBlock(ev)),
                   !.deltas = Append(@, ev)]
    [] ev.type = "content_block_delta" ->
         LET s1 == IF ev.blockType = "text_delta" /\ ev.text # NullText
                     THEN YieldText(s, ev.text, "streaming")
                     ELSE s
         IN  IF ev.blockType = "input_json_delta" /\ ev.json # NullText
               THEN [s1 EXCEPT !.blocks = InputJsonDelta(@, ev),
                                !.deltas = Append(@, ev)]
               ELSE s1
    [] ev.type = "message_stop" ->
         [s EXCEPT !.finishReason = FinishReasonOr(@, "stop")]
    [] OTHER -> s

\* One line of the body, the newline taken off: the part both adapters
\* share (openai.ts:167-179, openrouter.ts:296-308), then the event.
HandleLine(s, line) ==
  IF line = <<>> \/ line[1] # DataPrefix THEN s
  ELSE LET data == Tail(line) IN
       IF data = <<>> \/ data = <<Tok("[DONE]")>>
         THEN [s EXCEPT !.finishReason = FinishReasonOr(@, "stop")]
       ELSE IF ~IsJsonPayload(data)
         THEN s  \* JSON.parse throws
       ELSE IF s.adapter = "openai" THEN OpenAIEvent(s, ParsedPayload(data))
       ELSE AnthropicEvent(s, ParsedPayload(data))

\* buffer.indexOf("\n"), from 1; 0 when there is none.
IndexOfNewline(buffer) ==
  IF \E i \in 1..Len(buffer) : buffer[i] = NL
    THEN CHOOSE i \in 1..Len(buffer) :
           buffer[i] = NL /\ \A j \in 1..(i - 1) : buffer[j] # NL
    ELSE 0

RECURSIVE Drain(_)
\* The while over the complete lines of the buffer.
Drain(s) ==
  LET lineEnd == IndexOfNewline(s.buffer) IN
  IF lineEnd = 0 THEN s
  ELSE Drain(HandleLine(
               [s EXCEPT !.buffer = SubSeq(@, lineEnd + 1, Len(@))],
               SubSeq(s.buffer, 1, lineEnd - 1)))

StStart ==
  /\ st_pc = "start" /\ st_adapter = NoVal /\ st_chunks = 0
  /\ st_buffer = <<>> /\ st_blocks = <<>> /\ st_finishReason = NoVal
  /\ st_yielded = <<>> /\ st_deltas = <<>> /\ st_argParses = 0
  /\ st_reported = FALSE /\ st_timer = "idle"

StParked == StStart

StInit == StStart

\* fetchWithRetry's finally, run when fetch has resolved with the response
\* (its headers): clearTimeout(timeout).
TimerAfterFetch(timer) == "cleared"

\* stream() up to the for await: the request is answered, with a body or
\* without one.
StreamOpen(adapter, hasBody) ==
  /\ st_pc = "start"
  /\ st_adapter' = adapter
  /\ st_pc' = IF hasBody THEN "reading" ELSE "raised"
  /\ st_timer' = TimerAfterFetch(st_timer)
  /\ UNCHANGED <<st_chunks, st_buffer, st_blocks, st_finishReason,
                 st_yielded, st_deltas, st_argParses, st_reported>>

\* buffer += decoder.decode(chunk, { stream: true })
BufferAfterChunk_Replace(buffer, chunk) == chunk

BufferAfterChunk(buffer, chunk) == buffer \o chunk

\* One turn of the for await over the body: the chunk is appended to the
\* buffer and every complete line is handled.
ReadChunk(chunk) ==
  LET s == Drain([adapter |-> st_adapter,
                  buffer |-> BufferAfterChunk(st_buffer, chunk),
                  blocks |-> st_blocks, finishReason |-> st_finishReason,
                  yielded |-> st_yielded, deltas |-> st_deltas,
                  reported |-> st_reported])
  IN
  /\ st_pc = "reading"
  /\ st_chunks < MaxChunks
  /\ st_chunks' = st_chunks + 1
  /\ st_buffer' = s.buffer
  /\ st_blocks' = s.blocks
  /\ st_finishReason' = s.finishReason
  /\ st_yielded' = s.yielded
  /\ st_deltas' = s.deltas
  /\ st_reported' = s.reported
  /\ UNCHANGED <<st_adapter, st_pc, st_argParses, st_timer>>

\* The body ends: the code after the for await (openai.ts:215-234,
\* openrouter.ts:378-396).
StreamEnd ==
  LET toolCalls == AssembledToolCalls(st_adapter, st_blocks)
      fragment ==
        IF HasToolCalls(toolCalls)
          THEN Fragment(NullText, toolCalls,
                        FinishReasonOr(st_finishReason, "tool_calls"))
          ELSE Fragment(NullText, <<>>,
                        FinishReasonOr(st_finishReason, "stop"))
  IN
  /\ st_pc = "reading"
  /\ st_yielded' = Append(st_yielded, Yielded(fragment, TRUE))
  /\ st_argParses' = st_argParses + Len(toolCalls)
  /\ st_pc' = "done"
  /\ UNCHANGED <<st_adapter, st_chunks, st_buffer, st_blocks,
                 st_finishReason, st_deltas, st_reported, st_timer>>

\* Reading the body fails: the for await throws.
BodyRaises ==
  /\ st_pc = "reading"
  /\ st_pc' = "raised"
  /\ UNCHANGED <<st_adapter, st_chunks, st_buffer, st_blocks,
                 st_finishReason, st_yielded, st_deltas, st_argParses,
                 st_reported, st_timer>>

\* The three steps of a request that StreamOpen takes at once.  The request
\* is sent: the timer of the attempt is set.
RequestSent(adapter) ==
  /\ st_pc = "start"
  /\ st_adapter' = adapter
  /\ st_pc' = "requesting"
  /\ st_timer' = "armed"
  /\ UNCHANGED <<st_chunks, st_buffer, st_blocks, st_finishReason,
                 st_yielded, st_deltas, st_argParses, st_reported>>

\* fetch resolves with an ok response: the timer is cleared, stream() goes
\* on to the for await over the body or throws for want of one.
HeadersArrive(hasBody) ==
  /\ st_pc = "requesting"
  /\ st_pc' = IF hasBody THEN "reading" ELSE "raised"
  /\ st_timer' = TimerAfterFetch(st_timer)
  /\ UNCHANGED <<st_adapter, st_chunks, st_buffer, st_blocks,
                 st_finishReason, st_yielded, st_deltas, st_argParses,
                 st_reported>>

\* The timer fires while it is set: controller.abort() rejects the fetch,
\* or the read of the body, and stream() ends with the error (the retries
\* of a request that is never answered end the same way).
TimeoutAborts ==
  /\ st_timer = "armed"
  /\ st_pc \in {"requesting", "reading"}
  /\ st_pc' = "raised"
  /\ st_timer' = "fired"
  /\ UNCHANGED <<st_adapter, st_chunks, st_buffer, st_blocks,
                 st_finishReason, st_yielded, st_deltas, st_argParses,
                 st_reported>>

\* The bodies of the two vendors.
TextT == <<"T">>
OpenAIChunks ==
  { DataLine(OpenAIChunk(TextT, <<>>, NoVal)),
    DataLine(OpenAIChunk(NullText,
       <<ToolCallDelta(0, "call_a", "read_file", <<"{">>)>>, NoVal)),
    DataLine(OpenAIChunk(NullText,
       <<ToolCallDelta(0, NoVal, NoVal, <<"a", "}">>)>>, NoVal)),
    DataLine(OpenAIChunk(NullText, <<>>, "length")),
    <<DataPrefix, Tok("[DONE]"), NL>>,
    <<Tok("event: ping"), NL>>,
    <<DataPrefix, Tok("{not json"), NL>>,
    <<DataPrefix, EvTok(OpenAIChunk(TextT, <<>>, NoVal))>>,
    <<NL>>,
    DataLine(OpenAIChunk(TextT, <<>>, NoVal))
      \o DataLine(OpenAIChunk(<<>>,
            <<ToolCallDelta(1, "call_b", "exec", <<"{", "}">>)>>, NoVal)) }

AnthropicChunks ==
  { DataLine(ContentBlockStart(0, "text", TextT, NoVal, NoVal, JUndefined)),
    DataLine(ContentBlockDelta(0, "text_delta", TextT, NullText)),
    DataLine(ContentBlockStart(1, "tool_use", NullText, "call_a",
                               "read_file", JObject(<<>>))),
    DataLine(ContentBlockStart(1, "tool_use", NullText, "call_b", "exec",
                               JUndefined)),
    DataLine(ContentBlockDelta(1, "input_json_delta", NullText,
                               <<"{", "a", "}">>)),
    DataLine(MessageEvent("message_delta", "tool_use")),
    DataLine(MessageEvent("message_stop", NoVal)),
    <<Tok("event: ping"), NL>>,
    <<DataPrefix, EvTok(ContentBlockDelta(0, "text_delta", <<>>, NullText))>>,
    <<NL>> }

BodyChunks(adapter) ==
  IF adapter = "openai" THEN OpenAIChunks ELSE AnthropicChunks

\* Bodies of tool-call deltas only (OpenAI): every subset of id, name and
\* arguments fragment, for two indices, with ids and names that change,
\* fields that are present but empty, and argument text that is the JSON of
\* an array.
DeltaFields ==
  { <<NoVal, NoVal, NullText>>, <<"call_b", NoVal, NullText>>,
    <<NoVal, "exec", NullText>>, <<NoVal, NoVal, <<"{">>>>,
    <<NoVal, NoVal, <<"}">>>>, <<"call_a", "read_file", NullText>>,
    <<"call_b", NoVal, <<"{">>>>, <<NoVal, "read_file", <<"}">>>>,
    <<"call_a", "exec", <<"a", "}">>>>, <<"", "", <<>>>>,
    <<"call_a", "exec", <<"[", "]">>>> }
ToolCallDeltas ==
  { ToolCallDelta(index, f[1], f[2], f[3]) : index \in {0, 1}, f \in DeltaFields }
DeltaChunks ==
  { DataLine(OpenAIChunk(NullText, <<delta>>, NoVal)) : delta \in ToolCallDeltas }
    \cup
  { DataLine(OpenAIChunk(NullText,
       <<ToolCallDelta(0, "call_a", NoVal, <<"{">>),
         ToolCallDelta(1, NoVal, "exec", <<"{">>)>>, NoVal)) }

\* The fragments of a stream of text: no text, empty text, two texts.
TextFragments ==
  [content : {NullText, <<>>, <<"A">>, <<"B">>}, toolCalls : {<<>>}]

\* The provider's stream yields chunk to the for await of runOnceStream.
ProviderYields(chunk) ==
  /\ StreamChunk(chunk)
  /\ st_yielded' =
       Append(st_yielded,
              Yielded(Fragment(chunk.content, chunk.toolCalls, "streaming"),
                      FALSE))
  /\ UNCHANGED <<st_adapter, st_pc, st_chunks, st_buffer, st_blocks,
                 st_finishReason, st_deltas, st_argParses, st_reported, st_timer>>

(***************************************************************************)
(* The response body as the network delivers it.  ln_rest are the tokens   *)
(* of the body still to come, ln_body those stream() has received; a       *)
(* network chunk is any non-empty run of the tokens to come, so that a     *)
(* line, and the JSON text of its payload, can reach stream() in pieces.   *)
(***************************************************************************)

ToolDeltaEvent ==
  OpenAIChunk(NullText,
              <<ToolCallDelta(0, "call_a", "read_file", <<"{", "}">>)>>, NoVal)
ToolUseEvent ==
  ContentBlockStart(1, "tool_use", NullText, "call_a", "read_file", JUndefined)

\* Lines that are not data lines and data lines whose payload JSON.parse
\* rejects: a comment or event-name line, an empty line, text that is not
\* JSON, JSON cut short, and a data line with nothing after the prefix.
OddLines(ev) ==
  { <<Tok("event: ping"), NL>>, <<NL>>,
    <<DataPrefix, Tok("{not json"), NL>>, <<DataPrefix, EvHead(ev), NL>>,
    <<DataPrefix, NL>> }

OpenAILines ==
  { DataLine(OpenAIChunk(TextT, <<>>, NoVal)), SplitDataLine(ToolDeltaEvent),
    <<DataPrefix, Tok("[DONE]"), NL>> }
    \cup OddLines(ToolDeltaEvent)

AnthropicLines ==
  { DataLine(ContentBlockDelta(0, "text_delta", TextT, NullText)),
    SplitDataLine(ToolUseEvent),
    DataLine(MessageEvent("message_delta", "tool_use")) }
    \cup OddLines(ToolUseEvent)

\* The last line of a body may end with the body instead of a newline.
WithoutLastNewline(body) == SubSeq(body, 1, Len(body) - 1)

\* Bodies of one to three lines.
BodiesOf(lines) ==
  LET terminated ==
        { l1 \o l2 \o l3 : l1 \in lines \cup {<<>>}, l2 \in lines \cup {<<>>},
                           l3 \in lines }
  IN  terminated \cup { WithoutLastNewline(body) : body \in terminated }

OpenAIBodies == BodiesOf(OpenAILines)
AnthropicBodies == BodiesOf(AnthropicLines)

Bodies(adapter) ==
  IF adapter = "openai" THEN OpenAIBodies ELSE AnthropicBodies

LnParked == ln_body = <<>> /\ ln_rest = <<>>

LnInit ==
  /\ ln_body = <<>>
  /\ ln_rest \in OpenAIBodies \cup AnthropicBodies

\* stream() is called on the adapter the body is for.
BodyOpens(adapter) ==
  /\ ln_rest \in Bodies(adapter)
  /\ StreamOpen(adapter, TRUE)
  /\ UNCHANGED lnVars

\* The next n tokens of the body arrive as one chunk.
BodyDelivers(n) ==
  /\ ReadChunk(SubSeq(ln_rest, 1, n))
  /\ ln_body' = ln_body \o SubSeq(ln_rest, 1, n)
  /\ ln_rest' = SubSeq(ln_rest, n + 1, Len(ln_rest))

\* The body ends once all of it has arrived.
BodyEnds ==
  /\ ln_rest = <<>>
  /\ StreamEnd
  /\ UNCHANGED lnVars

(***************************************************************************)
(* agent/session.ts: Session and SessionManager, for one session key.      *)
(* sm_objs are the Session objects created so far, sm_cache the one the    *)
(* manager's map holds for the key (0: none), sm_file the lines of the     *)
(* key's file, sm_task the callers: where each is in getOrCreate or save,  *)
(* the Session it holds and the payload of its appendFile.                 *)
(***************************************************************************)

\* The calls one caller makes on the store: at most MaxOps.
MaxOps == 5

Tasks == {1, 2}
TaskName(t) == IF t = 1 THEN "first" ELSE "second"

NewSession_Unsaved(messages) ==
  [messages |-> messages, lastSavedIndex |-> 0, dirty |-> FALSE]

\* new Session(key, messages): loaded messages count as saved.  dirty
\* records for the claims whether addMessage was called since save was
\* last called.
NewSession(messages) ==
  [messages |-> messages, lastSavedIndex |-> Len(messages), dirty |-> FALSE]

\* Session.addMessage
AddMessageTo(session, message) ==
  [session EXCEPT !.messages = Append(@, message), !.dirty = TRUE]

markSaved_Forgets(session, payload) == session

\* Session.markSaved, called when appendFile has returned.
markSaved(session, payload) ==
  [session EXCEPT !.lastSavedIndex = Len(session.messages)]

TaskStart ==
  [pc |-> "start", session |-> 0, toSave |-> <<>>, dirtyAtCall |-> FALSE,
   ops |-> 0]

SmStart(file) ==
  /\ sm_file = file /\ sm_file0 = file
  /\ sm_objs = <<>> /\ sm_cache = 0
  /\ sm_task = [t \in Tasks |-> TaskStart]
  /\ sm_added = <<>> /\ sm_writes = 0

SmParked == SmStart(<<>>)

SmInit == \E file \in Histories : SmStart(file)

\* getOrCreate up to its await: the cached Session, or the file is read.
GetOrCreate(t) ==
  /\ sm_task[t].pc \in {"start", "have"}
  /\ sm_task[t].ops < MaxOps
  /\ sm_task' =
       [sm_task EXCEPT
          ![t].ops = @ + 1,
          ![t].session = IF sm_cache # 0 THEN sm_cache ELSE @,
          ![t].pc = IF sm_cache # 0 THEN "have" ELSE "loading"]
  /\ UNCHANGED <<sm_file, sm_file0, sm_objs, sm_cache, sm_added, sm_writes>>

\* load has read the file: a Session of its messages (or an empty one) is
\* made, put in the map and returned.
LoadReturns(t) ==
  /\ sm_task[t].pc = "loading"
  /\ sm_objs' = Append(sm_objs, NewSession(sm_file))
  /\ sm_cache' = Len(sm_objs) + 1
  /\ sm_task' = [sm_task EXCEPT ![t].session = Len(sm_objs) + 1,
                                ![t].pc = "have"]
  /\ UNCHANGED <<sm_file, sm_file0, sm_added, sm_writes>>

\* session.addMessage(role, content)
AddMessage(t, message) ==
  /\ sm_task[t].pc = "have"
  /\ sm_task[t].ops < MaxOps
  /\ sm_objs' = [sm_objs EXCEPT ![sm_task[t].session] =
                   AddMessageTo(@, message)]
  /\ sm_added' = Append(sm_added, message)
  /\ sm_task' = [sm_task EXCEPT ![t].ops = @ + 1]
  /\ UNCHANGED <<sm_file, sm_file0, sm_cache, sm_writes>>

\* save(session) up to its first await (mkdir).
Save(t) ==
  /\ sm_task[t].pc = "have"
  /\ sm_task[t].ops < MaxOps
  /\ sm_task' =
       [sm_task EXCEPT ![t].ops = @ + 1, ![t].pc = "mkdir",
                       ![t].dirtyAtCall = sm_objs[sm_task[t].session].dirty]
  /\ sm_objs' = [sm_objs EXCEPT ![sm_task[t].session].dirty = FALSE]
  /\ UNCHANGED <<sm_file, sm_file0, sm_cache, sm_added, sm_writes>>

\* The end of a turn (loop.ts:446-448): the user and the assistant message
\* are added and save is called, with no await between.
TurnEnds(t) ==
  LET session ==
        AddMessageTo(
          AddMessageTo(sm_objs[sm_task[t].session],
                       SessionMessage("user", <<"U", TaskName(t)>>)),
          SessionMessage("assistant", <<"A", TaskName(t)>>))
  IN
  /\ sm_task[t].pc = "have"
  /\ sm_task[t].ops < MaxOps
  /\ sm_objs' = [sm_objs EXCEPT ![sm_task[t].session] =
                   [session EXCEPT !.dirty = FALSE]]
  /\ sm_added' = sm_added \o <<SessionMessage("user", <<"U", TaskName(t)>>),
                               SessionMessage("assistant", <<"A", TaskName(t)>>)>>
  /\ sm_task' = [sm_task EXCEPT ![t].ops = MaxOps, ![t].pc = "mkdir",
                                ![t].dirtyAtCall = TRUE]
  /\ UNCHANGED <<sm_file, sm_file0, sm_cache, sm_writes>>

\* mkdir has returned: the unsaved messages are taken and appendFile is
\* called, or save returns because there are none.
MkdirReturns(t) ==
  LET session == sm_objs[sm_task[t].session]
      toSave == getUnsavedMessages(session.messages, session.lastSavedIndex)
  IN
  /\ sm_task[t].pc = "mkdir"
  /\ IF toSave = <<>>
       THEN /\ sm_task' = [sm_task EXCEPT ![t].pc = "have"]
            /\ UNCHANGED sm_writes
       ELSE /\ sm_task' = [sm_task EXCEPT ![t].pc = "appending",
                                          ![t].toSave = toSave]
            /\ sm_writes' = sm_writes + 1
  /\ UNCHANGED <<sm_file, sm_file0, sm_objs, sm_cache, sm_added>>

\* appendFile writes its payload at the end of the file.
AppendWrites(t) ==
  /\ sm_task[t].pc = "appending"
  /\ sm_file' = sm_file \o sm_task[t].toSave
  /\ sm_task' = [sm_task EXCEPT ![t].pc = "written"]
  /\ UNCHANGED <<sm_file0, sm_objs, sm_cache, sm_added, sm_writes>>

\* appendFile has returned: markSaved, and save returns.
AppendReturns(t) ==
  /\ sm_task[t].pc = "written"
  /\ sm_objs' = [sm_objs EXCEPT ![sm_task[t].session] =
                   markSaved(@, sm_task[t].toSave)]
  /\ sm_task' = [sm_task EXCEPT ![t].pc = "have", ![t].toSave = <<>>]
  /\ UNCHANGED <<sm_file, sm_file0, sm_cache, sm_added, sm_writes>>

\* appendFile rejects, nothing written: save throws before markSaved.
AppendRaises(t) ==
  /\ sm_task[t].pc = "appending"
  /\ sm_task' = [sm_task EXCEPT ![t].pc = "have", ![t].toSave = <<>>]
  /\ UNCHANGED <<sm_file, sm_file0, sm_objs, sm_cache, sm_added, sm_writes>>

\* The messages a caller adds.
StoreMessages ==
  {SessionMessage("user", <<"U">>), SessionMessage("assistant", <<"A">>)}

(***************************************************************************)
(* agent/session.ts: the text of the session file.  A text is a sequence   *)
(* of characters; a word that holds no character JSON treats specially     *)
(* (a role, a timestamp, a key) stands as one character.                   *)
(***************************************************************************)

\* The messages added to the session before the file is loaded afresh.
MaxAdds == 2

LF == "\n"
QUOTE == "\""
BACKSLASH == "\\"
BLANK == " "

\* undefined, for a key an object does not have.
Absent == <<"<absent>">>

\* A SessionMessage.
Stamped(role, content, timestamp) ==
  [role |-> role, content |-> content, timestamp |-> timestamp]

EscapeChar_Raw(c) == <<c>>

\* JSON.stringify on one character of a string.
EscapeChar(c) ==
  IF c = LF THEN <<BACKSLASH, "n">>
  ELSE IF c \in {QUOTE, BACKSLASH} THEN <<BACKSLASH, c>>
  ELSE <<c>>

RECURSIVE EscapeString(_)
EscapeString(str) ==
  IF str = <<>> THEN <<>>
  ELSE EscapeChar(Head(str)) \o EscapeString(Tail(str))

\* JSON.stringify of a string or null.
StringifyText(str) ==
  IF str = NullText THEN <<"null">>
  ELSE <<QUOTE>> \o EscapeString(str) \o <<QUOTE>>

\* JSON.stringify(msg), session.ts:108
StringifyMessage(msg) ==
  <<"{">> \o StringifyText(<<"role">>) \o <<":">> \o StringifyText(msg.role)
    \o <<",">> \o StringifyText(<<"content">>) \o <<":">>
    \o StringifyText(msg.content)
    \o <<",">> \o StringifyText(<<"timestamp">>) \o <<":">>
    \o StringifyText(msg.timestamp) \o <<"}">>

RECURSIVE Payload(_)
\* toSave.map(JSON.stringify).join("\n") + "\n", for a list that is not
\* empty.
Payload(toSave) ==
  IF toSave = <<>> THEN <<>>
  ELSE StringifyMessage(Head(toSave)) \o <<LF>> \o Payload(Tail(toSave))

\* What a read of JSON text gives: whether it is valid, the value, and
\* where the text goes on.
Read(ok, value, next) == [ok |-> ok, value |-> value, next |-> next]
ReadFails == Read(FALSE, <<>>, 0)

RECURSIVE ReadString(_, _, _)
\* The string whose opening quote is before tokens[i].
ReadString(tokens, i, acc) ==
  IF i > Len(tokens) THEN ReadFails
  ELSE IF tokens[i] = QUOTE THEN Read(TRUE, acc, i + 1)
  ELSE IF tokens[i] = LF THEN ReadFails
  ELSE IF tokens[i] = BACKSLASH
    THEN IF i + 1 > Len(tokens) THEN ReadFails
         ELSE IF tokens[i + 1] = "n"
           THEN ReadString(tokens, i + 2, Append(acc, LF))
         ELSE IF tokens[i + 1] \in {QUOTE, BACKSLASH}
           THEN ReadString(tokens, i + 2, Append(acc, tokens[i + 1]))
         ELSE ReadFails
  ELSE ReadString(tokens, i + 1, Append(acc, tokens[i]))

\* A value of the kinds the file holds: a string or null.
ReadValue(tokens, i) ==
  IF i > Len(tokens) THEN ReadFails
  ELSE IF tokens[i] = QUOTE THEN ReadString(tokens, i + 1, <<>>)
  ELSE IF tokens[i] = "null" THEN Read(TRUE, NullText, i + 1)
  ELSE ReadFails

NoMembers == [role |-> Absent, content |-> Absent, timestamp |-> Absent]

WithMember(obj, key, value) ==
  IF key = <<"role">> THEN [obj EXCEPT !.role = value]
  ELSE IF key = <<"content">> THEN [obj EXCEPT !.content = value]
  ELSE IF key = <<"timestamp">> THEN [obj EXCEPT !.timestamp = value]
  ELSE obj

RECURSIVE ReadMembers(_, _, _)
\* The members of an object from tokens[i], a key, on.
ReadMembers(tokens, i, obj) ==
  IF i > Len(tokens) \/ tokens[i] # QUOTE THEN ReadFails
  ELSE LET key == ReadString(tokens, i + 1, <<>>) IN
       IF ~key.ok \/ key.next > Len(tokens) \/ tokens[key.next] # ":"
         THEN ReadFails
       ELSE LET value == ReadValue(tokens, key.next + 1) IN
            IF ~value.ok \/ value.next > Len(tokens) THEN ReadFails
            ELSE IF tokens[value.next] = "}"
              THEN Read(TRUE, WithMember(obj, key.value, value.value),
                        value.next + 1)
            ELSE IF tokens[value.next] = ","
              THEN ReadMembers(tokens, value.next + 1,
                               WithMember(obj, key.value, value.value))
            ELSE ReadFails

RECURSIVE Trim(_)
\* line.trim()
Trim(text) ==
  IF text = <<>> THEN text
  ELSE IF Head(text) = BLANK THEN Trim(Tail(text))
  ELSE IF text[Len(text)] = BLANK THEN Trim(SubSeq(text, 1, Len(text) - 1))
  ELSE text

\* JSON.parse(line), session.ts:79: kind is "error" when it throws, "null"
\* for the text null, "object" for an object of string or null members.
ParseLine(line) ==
  LET text == Trim(line) IN
  IF text = <<"null">> THEN [kind |-> "null", obj |-> NoMembers]
  ELSE IF text = <<"{", "}">> THEN [kind |-> "object", obj |-> NoMembers]
  ELSE IF text # <<>> /\ text[1] = "{"
    THEN LET members == ReadMembers(text, 2, NoMembers) IN
         IF members.ok /\ members.next = Len(text) + 1
           THEN [kind |-> "object", obj |-> members.value]
           ELSE [kind |-> "error", obj |-> NoMembers]
  ELSE [kind |-> "error", obj |-> NoMembers]

\* value ?? fallback
OrElse(value, fallback) ==
  IF value = Absent \/ value = NullText THEN fallback ELSE value

\* parsed && parsed.role
HasRole(parsed) ==
  /\ parsed.kind = "object"
  /\ parsed.obj.role \notin {Absent, NullText, <<>>}

RECURSIVE SplitLines(_)
\* raw.split("\n")
SplitLines(raw) ==
  LET lineEnd == IF \E i \in 1..Len(raw) : raw[i] = LF
                   THEN CHOOSE i \in 1..Len(raw) :
                          raw[i] = LF /\ \A j \in 1..(i - 1) : raw[j] # LF
                   ELSE 0
  IN  IF lineEnd = 0 THEN <<raw>>
      ELSE <<SubSeq(raw, 1, lineEnd - 1)>>
             \o SplitLines(SubSeq(raw, lineEnd + 1, Len(raw)))

RECURSIVE LoadLines(_, _)
\* session.ts:77-90: the messages of the lines, at time now.
LoadLines(lines, now) ==
  IF lines = <<>> THEN <<>>
  ELSE LET parsed == ParseLine(Head(lines))
           rest == LoadLines(Tail(lines), now)
       IN  IF Trim(Head(lines)) # <<>> /\ HasRole(parsed)
             THEN <<Stamped(parsed.obj.role,
                            OrElse(parsed.obj.content, NullText),
                            OrElse(parsed.obj.timestamp, now))>> \o rest
             ELSE rest

\* SessionManager.load at time now, as the messages of the Session that
\* getOrCreate returns (none when load returns null).
load(raw, now) == LoadLines(SplitLines(raw), now)

\* The file before the first manager opens it: lines of earlier saves and
\* lines that are blank, not JSON, JSON without a role, or an entry
\* without a timestamp.  Each line with the entries it stands for.
OldLine(text, entries) == [text |-> text, entries |-> entries]

OldLines ==
  { OldLine(StringifyMessage(Stamped(<<"user">>, <<"a">>, <<"T0">>))
              \o <<LF>>,
            <<Stamped(<<"user">>, <<"a">>, <<"T0">>)>>),
    OldLine(<<>>, <<>>), OldLine(<<LF>>, <<>>), OldLine(<<BLANK, LF>>, <<>>),
    OldLine(<<"x", LF>>, <<>>), OldLine(<<"{", "}", LF>>, <<>>),
    OldLine(<<"null", LF>>, <<>>),
    OldLine(<<"{">> \o StringifyText(<<"content">>) \o <<":">>
                   \o StringifyText(<<"a">>) \o <<"}", LF>>, <<>>),
    OldLine(<<"{">> \o StringifyText(<<"role">>) \o <<":">>
                   \o StringifyText(<<"assistant">>) \o <<"}", LF>>,
            <<Stamped(<<"assistant">>, NullText, Absent)>>) }

OldFiles ==
  { OldLine(l1.text \o l2.text, l1.entries \o l2.entries) :
      l1 \in OldLines, l2 \in OldLines }

\* What addMessage is called with.
AddedContents ==
  { NullText, <<>>, <<"a">>, <<"a", LF, "a">>, <<QUOTE, "{">>,
    <<BACKSLASH, "n">> }
AddedMessages ==
  { <<<<"user">>, content>> : content \in AddedContents \ {NullText} }
    \cup { <<<<"assistant">>, NullText>>, <<<<"assistant">>, <<"a">>>> }

\* new Date().toISOString() when the n-th message of the session is added,
\* and when the first and the fresh manager load the file.
TimeAdded(n) ==
  CASE n = 1 -> <<"T1">> [] n = 2 -> <<"T2">> [] n = 3 -> <<"T3">>
    [] n = 4 -> <<"T4">> [] OTHER -> <<"T5">>
TimeFirstLoad == <<"L1">>
TimeFreshLoad == <<"L2">>

FsStart(file) ==
  /\ fs_pc = "start" /\ fs_file = file.text /\ fs_old = file.entries
  /\ fs_messages = <<>> /\ fs_lastSavedIndex = 0 /\ fs_loaded = <<>>
  /\ fs_added = <<>>

FsParked == FsStart(OldLine(<<>>, <<>>))

FsInit == \E file \in OldFiles : FsStart(file)

\* getOrCreate on the first manager: new Session(key, messages), or
\* new Session(key) when the file gives no message.
FirstManagerLoads ==
  /\ fs_pc = "start"
  /\ fs_messages' = load(fs_file, TimeFirstLoad)
  /\ fs_lastSavedIndex' = Len(load(fs_file, TimeFirstLoad))
  /\ fs_pc' = "open"
  /\ UNCHANGED <<fs_file, fs_loaded, fs_old, fs_added>>

\* session.addMessage(role, content)
MessageAdded(role, content) ==
  LET msg == Stamped(role, content, TimeAdded(Len(fs_added) + 1)) IN
  /\ fs_pc = "open"
  /\ Len(fs_added) < MaxAdds
  /\ fs_messages' = Append(fs_messages, msg)
  /\ fs_added' = Append(fs_added, msg)
  /\ UNCHANGED <<fs_pc, fs_file, fs_lastSavedIndex, fs_loaded, fs_old>>

\* save(session) on the first manager.
SessionSaved ==
  LET toSave == getUnsavedMessages(fs_messages, fs_lastSavedIndex) IN
  /\ fs_pc = "open"
  /\ toSave # <<>>
  /\ fs_file' = fs_file \o Payload(toSave)
  /\ fs_lastSavedIndex' = Len(fs_messages)
  /\ UNCHANGED <<fs_pc, fs_messages, fs_loaded, fs_old, fs_added>>

\* getOrCreate on a fresh manager over the same directory, once all that
\* was added is saved.
FreshManagerLoads ==
  /\ fs_pc = "open"
  /\ fs_lastSavedIndex = Len(fs_messages)
  /\ fs_loaded' = load(fs_file, TimeFreshLoad)
  /\ fs_pc' = "loaded"
  /\ UNCHANGED <<fs_file, fs_messages, fs_lastSavedIndex, fs_old, fs_added>>

(***************************************************************************)
(* providers/base: the helpers, each called on its own.                    *)
(***************************************************************************)

\* The longest argument text: MaxLen tokens.
MaxLen == 3

\* The tokens of JSON text and one that no JSON text has.
JsonTokens == {"{", "}", "[", "]", ",", "a", "0", "null", "true", "str", "x"}

JsonTexts == UNION {[1..n -> JsonTokens] : n \in 0..MaxLen}

\* The helper name is about to be called with arg.
FnCall(name, arg) ==
  fn_name = name /\ fn_arg = arg /\ fn_result = JUndefined

FnParked == FnCall(NoVal, <<>>)

SafeParseArgumentsReturns ==
  /\ fn_name = "safeParseArguments"
  /\ fn_result = JUndefined
  /\ fn_result' = safeParseArguments(fn_arg)
  /\ UNCHANGED <<fn_name, fn_arg>>

(***************************************************************************)
(* providers/normalize: extractText and normalizeContent.  A content value *)
(* is a record: t is its type ("string", "number", "boolean", "null",      *)
(* "undefined", "object", "array"), s the text of a string or of           *)
(* String(value), fields the <<key, value>> pairs of an object in          *)
(* insertion order, parts the elements of an array.                        *)
(***************************************************************************)

\* The longest content array: MaxParts elements.
MaxParts == 2

Value(t, s, fields, parts) == [t |-> t, s |-> s, fields |-> fields, parts |-> parts]
VString(s) == Value("string", s, <<>>, <<>>)
VNumber == Value("number", <<"1">>, <<>>, <<>>)
VBoolean == Value("boolean", <<"true">>, <<>>, <<>>)
VNull == Value("null", <<"null">>, <<>>, <<>>)
VUndefined == Value("undefined", <<"undefined">>, <<>>, <<>>)
VObject(fields) == Value("object", <<>>, fields, <<>>)
VArray(parts) == Value("array", <<>>, <<>>, parts)

\* content.key: undefined when the object has no such field.
Field(content, key) ==
  IF \E i \in 1..Len(content.fields) : content.fields[i][1] = key
    THEN content.fields[CHOOSE i \in 1..Len(content.fields) :
                          content.fields[i][1] = key][2]
    ELSE VUndefined

RECURSIVE JoinTexts(_)
\* parts.join("")
JoinTexts(texts) ==
  IF texts = <<>> THEN <<>> ELSE Head(texts) \o JoinTexts(Tail(texts))

RECURSIVE extractText(_)
\* extractText: NullText is null.
extractText(content) ==
  IF content.t = "string" THEN content.s
  ELSE IF content.t \in {"number", "boolean"} THEN content.s
  ELSE IF content.t = "array" THEN
    LET extracted == [i \in 1..Len(content.parts) |-> extractText(content.parts[i])]
        parts == SelectSeq(extracted, LAMBDA part : part # NullText /\ part # <<>>)
    IN IF Len(parts) > 0 THEN JoinTexts(parts) ELSE NullText
  ELSE IF content.t = "object" THEN
    IF Field(content, "text").t = "string" THEN Field(content, "text").s
    ELSE IF Field(content, "content").t = "string" THEN Field(content, "content").s
    ELSE NullText
  ELSE NullText

Quote == "\""

RECURSIVE JoinWithCommas(_)
JoinWithCommas(texts) ==
  IF texts = <<>> THEN <<>>
  ELSE IF Len(texts) = 1 THEN texts[1]
  ELSE texts[1] \o <<",">> \o JoinWithCommas(Tail(texts))

RECURSIVE StringifyValue(_)
\* JSON.stringify of a value other than undefined: a field whose value is
\* undefined is left out, an undefined element of an array is written null.
StringifyValue(content) ==
  IF content.t = "string" THEN <<Quote>> \o content.s \o <<Quote>>
  ELSE IF content.t = "undefined" THEN <<"null">>
  ELSE IF content.t = "array" THEN
    <<"[">> \o JoinWithCommas([i \in 1..Len(content.parts) |->
                                 StringifyValue(content.parts[i])]) \o <<"]">>
  ELSE IF content.t = "object" THEN
    LET present == SelectSeq(content.fields, LAMBDA f : f[2].t # "undefined") IN
    <<"{">> \o JoinWithCommas([i \in 1..Len(present) |->
                                 <<Quote, present[i][1], Quote, ":">>
                                   \o StringifyValue(present[i][2])]) \o <<"}">>
  ELSE content.s

\* normalizeContent: NullText is null.
normalizeContent(content) ==
  LET extracted == extractText(content) IN
  IF extracted # NullText THEN extracted
  ELSE IF content.t \in {"null", "undefined"} THEN NullText
  ELSE StringifyValue(content)

\* The values a content is drawn from: scalars, objects with and without a
\* text or content field (a string, empty or not, or a number), and arrays
\* of these.
Strings == {<<>>, <<"h">>, <<"h", "i">>}
Scalars == {VString(s) : s \in Strings} \cup {VNumber, VBoolean, VNull, VUndefined}
FieldValues == {VString(<<>>), VString(<<"h">>), VNumber, VUndefined}
\* An object literal with the given fields, those that are undefined absent.
ObjectOf(type, text, content, a) ==
  VObject(SelectSeq(<<<<"type", type>>, <<"text", text>>,
                      <<"content", content>>, <<"a", a>>>>,
                    LAMBDA f : f[2] # VUndefined))
Objects ==
  { ObjectOf(type, text, content, a) :
      type \in {VString(<<"text">>), VUndefined},
      text \in FieldValues, content \in FieldValues,
      a \in {VNumber, VUndefined} }
TextPart(s) == ObjectOf(VString(<<"text">>), VString(s), VUndefined, VUndefined)
Parts ==
  {TextPart(s) : s \in Strings}
    \cup {VString(<<>>), VString(<<"i">>), VNumber, VNull, VUndefined}
    \cup {ObjectOf(VUndefined, VNumber, VString(<<"h">>), VUndefined),
          ObjectOf(VString(<<"image">>), VUndefined, VUndefined, VNumber),
          VArray(<<>>), VArray(<<VString(<<"i">>)>>)}
Arrays == UNION {{VArray(parts) : parts \in [1..n -> Parts]} : n \in 0..MaxParts}
ContentValues == Scalars \cup Objects \cup Arrays

\* No result yet.
Pending == <<"<pending>">>

NormalizeContentCalled(content) ==
  fn_name = "normalizeContent" /\ fn_arg = content /\ fn_result = Pending

NormalizeContentReturns ==
  /\ fn_name = "normalizeContent"
  /\ fn_result = Pending
  /\ fn_result' = normalizeContent(fn_arg)
  /\ UNCHANGED <<fn_name, fn_arg>>

(***************************************************************************)
(* providers/factory: ProviderFactory.create.  A configuration is a record *)
(* of the two places a provider name is configured, the API key of each    *)
(* provider in the environment and the one in the config; NoVal is         *)
(* undefined.                                                              *)
(***************************************************************************)

ProviderNames == <<"openai", "openrouter", "anthropic">>

\* name.toLowerCase().trim(), on the names a configuration is drawn from.
LowerTrim(name) ==
  CASE name = " OpenAI " -> "openai"
    [] name = "Anthropic" -> "anthropic"
    [] OTHER -> name

\* normalizeProviderName: NoVal is null.
normalizeProviderName(name) ==
  IF ~Truthy(name) THEN NoVal
  ELSE IF \E i \in 1..3 : ProviderNames[i] = LowerTrim(name) THEN LowerTrim(name)
  ELSE NoVal

\* a ?? b
Coalesce(a, b) == IF a = NoVal THEN b ELSE a

\* env.X_API_KEY || config.providers?.x?.apiKey
HasKey(c, provider) == Truthy(c.envKey[provider]) \/ Truthy(c.configKey[provider])

Resolved(name, error) == [name |-> name, error |-> error]

resolveProviderName_AnthropicFirst(c) ==
  LET fromConfig == normalizeProviderName(Coalesce(c.agentsProvider, c.providersDefault)) IN
  IF fromConfig # NoVal THEN Resolved(fromConfig, NoVal)
  ELSE IF HasKey(c, "anthropic") THEN Resolved("anthropic", NoVal)
  ELSE IF HasKey(c, "openai") THEN Resolved("openai", NoVal)
  ELSE IF HasKey(c, "openrouter") THEN Resolved("openrouter", NoVal)
  ELSE Resolved(NoVal, "No provider configured")

\* resolveProviderName: the name, or the error it throws.
resolveProviderName(c) ==
  LET fromConfig == normalizeProviderName(Coalesce(c.agentsProvider, c.providersDefault)) IN
  IF fromConfig # NoVal THEN Resolved(fromConfig, NoVal)
  ELSE IF HasKey(c, "openai") THEN Resolved("openai", NoVal)
  ELSE IF HasKey(c, "openrouter") THEN Resolved("openrouter", NoVal)
  ELSE IF HasKey(c, "anthropic") THEN Resolved("anthropic", NoVal)
  ELSE Resolved(NoVal, "No provider configured")

\* ProviderFactory.create: the name it returns, or the error it throws.
create(c) ==
  LET resolved == resolveProviderName(c) IN
  IF resolved.name = NoVal THEN resolved
  ELSE IF ~Truthy(Coalesce(c.envKey[resolved.name], c.configKey[resolved.name]))
    THEN Resolved(NoVal, "Missing API key")
  ELSE resolved

\* The configurations: names that are absent, empty, valid, valid after
\* normalization and unknown; keys that are absent, empty and present.
ConfiguredNames == {NoVal, "", "openrouter", " OpenAI ", "Anthropic", "vllm"}
DefaultNames == {NoVal, "anthropic", "vllm"}
ProviderSet == {ProviderNames[i] : i \in 1..3}
Configurations ==
  [agentsProvider : ConfiguredNames, providersDefault : DefaultNames,
   envKey : [ProviderSet -> {NoVal, "", "sk"}],
   configKey : [ProviderSet -> {NoVal, "sk"}]]

NotCreated == Resolved(NoVal, NoVal)

CreateCalled(c) ==
  fn_name = "ProviderFactory.create" /\ fn_arg = c /\ fn_result = NotCreated

CreateReturns ==
  /\ fn_name = "ProviderFactory.create"
  /\ fn_result = NotCreated
  /\ fn_result' = create(fn_arg)
  /\ UNCHANGED <<fn_name, fn_arg>>

(***************************************************************************)
(* agent/tools/registry.ts: ToolRegistry.  A tool is a record of its name  *)
(* and an id that tells the tool objects of one name apart; tr_tools is    *)
(* the Map, a function from names to the tool set under it or NoTool.      *)
(***************************************************************************)

\* The register and unregister calls made on one registry: at most
\* MaxRegistryCalls.
MaxRegistryCalls == 3

ToolNames == {"read_file", "exec"}
Tool(name, id) == [name |-> name, id |-> id]
NoTool == Tool(NoVal, 0)
Tools == {Tool(name, id) : name \in ToolNames, id \in {1, 2}}

register_KeepFirst(tools, tool) ==
  IF tools[tool.name] = NoTool THEN [tools EXCEPT ![tool.name] = tool] ELSE tools

\* this.tools.set(tool.name, tool)
register(tools, tool) == [tools EXCEPT ![tool.name] = tool]

\* this.tools.delete(name)
unregister(tools, name) == [tools EXCEPT ![name] = NoTool]

\* What an execute did: the tool it ran, if any, and the error it threw
\* itself, if any.
Executed(name, ran, error) == [name |-> name, ran |-> ran, error |-> error]
NoExecute == Executed(NoVal, NoTool, NoVal)

\* new ToolRegistry()
TrStart ==
  /\ tr_tools = [name \in ToolNames |-> NoTool]
  /\ tr_log = <<>>
  /\ tr_executed = NoExecute

TrParked == TrStart

Register(tool) ==
  /\ Len(tr_log) < MaxRegistryCalls
  /\ tr_tools' = register(tr_tools, tool)
  /\ tr_log' = Append(tr_log, [op |-> "register", name |-> tool.name, tool |-> tool])
  /\ tr_executed' = NoExecute

Unregister(name) ==
  /\ Len(tr_log) < MaxRegistryCalls
  /\ tr_tools' = unregister(tr_tools, name)
  /\ tr_log' = Append(tr_log, [op |-> "unregister", name |-> name, tool |-> NoTool])
  /\ tr_executed' = NoExecute

\* execute(name, params)
Execute(name) ==
  LET tool == tr_tools[name] IN
  /\ tr_executed' =
       IF tool = NoTool THEN Executed(name, NoTool, "Tool not found")
       ELSE Executed(name, tool, NoVal)
  /\ UNCHANGED <<tr_tools, tr_log>>

(***************************************************************************)
(* Specifications                                                          *)
(***************************************************************************)

ClOthers == <<boVars, rtVars, lpVars, stVars, smVars, fnVars, trVars, lnVars, obVars, fsVars>>
BoOthers == <<clVars, rtVars, lpVars, stVars, smVars, fnVars, trVars, lnVars, obVars, fsVars>>
RtOthers == <<clVars, boVars, lpVars, stVars, smVars, fnVars, trVars, lnVars, obVars, fsVars>>
LpOthers == <<clVars, boVars, rtVars, stVars, smVars, fnVars, trVars, lnVars, obVars, fsVars>>
StOthers == <<clVars, boVars, rtVars, lpVars, smVars, fnVars, trVars, lnVars, obVars, fsVars>>
SmOthers == <<clVars, boVars, rtVars, lpVars, stVars, fnVars, trVars, lnVars, obVars, fsVars>>
FnOthers == <<clVars, boVars, rtVars, lpVars, stVars, smVars, trVars, lnVars, obVars, fsVars>>
TrOthers == <<clVars, boVars, rtVars, lpVars, stVars, smVars, fnVars, lnVars, obVars, fsVars>>
LnOthers == <<clVars, boVars, rtVars, lpVars, smVars, fnVars, trVars, obVars, fsVars>>
ObOthers == <<clVars, boVars, rtVars, stVars, smVars, fnVars, trVars, lnVars, fsVars>>
FsOthers == <<clVars, boVars, rtVars, lpVars, stVars, smVars, fnVars, trVars, lnVars, obVars>>

InitClassify == ClInit /\ BoParked /\ RtParked /\ LpParked /\ StParked /\ SmParked /\ FnParked /\ TrParked /\ LnParked /\ ObParked /\ FsParked

NextClassify ==
  \E status \in 0..MaxStatus : Classify(status) /\ UNCHANGED ClOthers

SpecClassify == InitClassify /\ [][NextClassify]_vars

InitBackoff == ClInit /\ BoInit /\ RtParked /\ LpParked /\ StParked /\ SmParked /\ FnParked /\ TrParked /\ LnParked /\ ObParked /\ FsParked

NextBackoff == Backoff /\ UNCHANGED BoOthers

SpecBackoff == InitBackoff /\ [][NextBackoff]_vars

InitRetry == ClInit /\ BoParked /\ RtInit /\ LpParked /\ StParked /\ SmParked /\ FnParked /\ TrParked /\ LnParked /\ ObParked /\ FsParked

NextRetry ==
  \/ AttemptStart /\ UNCHANGED RtOthers
  \/ \E status \in OkStatuses : FetchOk(status) /\ UNCHANGED RtOthers
  \/ \E status \in ErrorStatuses, bodyReadable \in BOOLEAN :
       FetchHttpError(status, bodyReadable) /\ UNCHANGED RtOthers
  \/ \E type \in FetchRejections : FetchRejects(type) /\ UNCHANGED RtOthers
  \/ SleepDone /\ UNCHANGED RtOthers

SpecRetry == InitRetry /\ [][NextRetry]_vars

InitLoop == ClInit /\ BoParked /\ RtParked /\ LpInit /\ StParked /\ SmParked /\ FnParked /\ TrParked /\ LnParked /\ ObParked /\ FsParked

NextLoop ==
  \/ \E mode \in Modes, listener \in Listeners, userContent \in UserContents :
       Begin(mode, listener, userContent) /\ UNCHANGED LpOthers
  \/ LoopHead /\ UNCHANGED LpOthers
  \/ \E response \in Responses : ChatReturns(response) /\ UNCHANGED LpOthers
  \/ ProviderRaises /\ UNCHANGED LpOthers
  \/ \E chunk \in Responses : StreamChunk(chunk) /\ UNCHANGED LpOthers
  \/ StreamEnds /\ UNCHANGED LpOthers
  \/ \E result \in ToolResults : ToolReturns(result) /\ UNCHANGED LpOthers
  \/ ToolRaises /\ UNCHANGED LpOthers
  \/ Finish /\ UNCHANGED LpOthers

SpecLoop == InitLoop /\ [][NextLoop]_vars

\* runOnceStream over a provider whose stream yields text fragments and no
\* tool calls; st_yielded holds what the provider has yielded.
NextTextTurn ==
  \/ \E listener \in Listeners, userContent \in UserContents :
       Begin("stream", listener, userContent) /\ UNCHANGED LpOthers
  \/ LoopHead /\ UNCHANGED LpOthers
  \/ \E chunk \in TextFragments :
       ProviderYields(chunk)
         /\ UNCHANGED <<clVars, boVars, rtVars, smVars, fnVars, trVars, lnVars, obVars, fsVars>>
  \/ StreamEnds /\ UNCHANGED LpOthers
  \/ Finish /\ UNCHANGED LpOthers

SpecTextTurn == InitLoop /\ [][NextTextTurn]_vars

\* A turn of runOnceStream, over a provider with stream or without.
NextStreamTurn ==
  \/ \E mode \in {"stream", "chat"}, listener \in Listeners,
        userContent \in UserContents :
       Begin(mode, listener, userContent) /\ UNCHANGED LpOthers
  \/ LoopHeadNoted /\ UNCHANGED ObOthers
  \/ \E response \in Responses : ChatReturns(response) /\ UNCHANGED LpOthers
  \/ ProviderRaises /\ UNCHANGED LpOthers
  \/ \E chunk \in Responses : StreamChunk(chunk) /\ UNCHANGED LpOthers
  \/ StreamEnds /\ UNCHANGED LpOthers
  \/ \E result \in ToolResults : ToolReturns(result) /\ UNCHANGED LpOthers
  \/ ToolRaises /\ UNCHANGED LpOthers
  \/ Finish /\ UNCHANGED LpOthers

SpecStreamTurn == InitLoop /\ [][NextStreamTurn]_vars

InitStream == ClInit /\ BoParked /\ RtParked /\ LpParked /\ StInit /\ SmParked /\ FnParked /\ TrParked /\ LnParked /\ ObParked /\ FsParked

\* stream() of either adapter over bodies of every kind of line.
NextStream ==
  \/ \E adapter \in {"openai", "anthropic"}, hasBody \in BOOLEAN :
       StreamOpen(adapter, hasBody) /\ UNCHANGED StOthers
  \/ \E chunk \in BodyChunks(st_adapter) : ReadChunk(chunk) /\ UNCHANGED StOthers
  \/ StreamEnd /\ UNCHANGED StOthers
  \/ BodyRaises /\ UNCHANGED StOthers

SpecStream == InitStream /\ [][NextStream]_vars

\* stream() from the sending of the request.  The vendor owes nothing: only
\* the timer, once set and not cleared, is sure to fire.
NextRequest ==
  \/ \E adapter \in {"openai", "anthropic"} :
       RequestSent(adapter) /\ UNCHANGED StOthers
  \/ \E hasBody \in BOOLEAN : HeadersArrive(hasBody) /\ UNCHANGED StOthers
  \/ TimeoutAborts /\ UNCHANGED StOthers
  \/ \E chunk \in BodyChunks(st_adapter) : ReadChunk(chunk) /\ UNCHANGED StOthers
  \/ StreamEnd /\ UNCHANGED StOthers
  \/ BodyRaises /\ UNCHANGED StOthers

SpecRequest ==
  InitStream /\ [][NextRequest]_vars /\ WF_vars(TimeoutAborts /\ UNCHANGED StOthers)

\* stream() of either adapter over a body that arrives in any chunks.
InitLines ==
  /\ ClInit /\ BoParked /\ RtParked /\ LpParked /\ StInit /\ SmParked
  /\ FnParked /\ TrStart /\ LnInit /\ ObParked /\ FsParked

NextLines ==
  \/ \E adapter \in {"openai", "anthropic"} :
       BodyOpens(adapter) /\ UNCHANGED LnOthers
  \/ \E n \in 1..Len(ln_rest) : BodyDelivers(n) /\ UNCHANGED LnOthers
  \/ BodyEnds /\ UNCHANGED LnOthers

SpecLines == InitLines /\ [][NextLines]_vars

\* stream() of the OpenAI adapter over bodies of tool-call deltas.
NextAssembly ==
  \/ StreamOpen("openai", TRUE) /\ UNCHANGED StOthers
  \/ \E chunk \in DeltaChunks : ReadChunk(chunk) /\ UNCHANGED StOthers
  \/ StreamEnd /\ UNCHANGED StOthers

SpecAssembly == InitStream /\ [][NextAssembly]_vars

InitStore ==
  ClInit /\ BoParked /\ RtParked /\ LpParked /\ StParked /\ SmInit /\ FnParked /\ TrParked /\ LnParked /\ ObParked /\ FsParked

\* One caller making any calls on the store, one after another.
NextStore ==
  \/ GetOrCreate(1) /\ UNCHANGED SmOthers
  \/ LoadReturns(1) /\ UNCHANGED SmOthers
  \/ \E message \in StoreMessages : AddMessage(1, message) /\ UNCHANGED SmOthers
  \/ Save(1) /\ UNCHANGED SmOthers
  \/ MkdirReturns(1) /\ UNCHANGED SmOthers
  \/ AppendWrites(1) /\ UNCHANGED SmOthers
  \/ AppendReturns(1) /\ UNCHANGED SmOthers

SpecStore == InitStore /\ [][NextStore]_vars

\* The same caller, with saves that can fail.
NextSaves ==
  \/ GetOrCreate(1) /\ UNCHANGED SmOthers
  \/ LoadReturns(1) /\ UNCHANGED SmOthers
  \/ \E message \in StoreMessages : AddMessage(1, message) /\ UNCHANGED SmOthers
  \/ Save(1) /\ UNCHANGED SmOthers
  \/ MkdirReturns(1) /\ UNCHANGED SmOthers
  \/ AppendWrites(1) /\ UNCHANGED SmOthers
  \/ AppendReturns(1) /\ UNCHANGED SmOthers
  \/ AppendRaises(1) /\ UNCHANGED SmOthers

SpecSaves == InitStore /\ [][NextSaves]_vars

\* A session file written by one manager and read by another.
InitRoundTrip ==
  /\ ClInit /\ BoParked /\ RtParked /\ LpParked /\ StParked /\ SmParked
  /\ FnParked /\ TrParked /\ LnParked /\ ObParked /\ FsInit

NextRoundTrip ==
  \/ FirstManagerLoads /\ UNCHANGED FsOthers
  \/ \E message \in AddedMessages :
       MessageAdded(message[1], message[2]) /\ UNCHANGED FsOthers
  \/ SessionSaved /\ UNCHANGED FsOthers
  \/ FreshManagerLoads /\ UNCHANGED FsOthers

SpecRoundTrip == InitRoundTrip /\ [][NextRoundTrip]_vars

\* Two turns on the key through one SessionManager, in any interleaving of
\* their awaits.
NextTurns ==
  \/ \E t \in Tasks : GetOrCreate(t) /\ UNCHANGED SmOthers
  \/ \E t \in Tasks : LoadReturns(t) /\ UNCHANGED SmOthers
  \/ \E t \in Tasks : TurnEnds(t) /\ UNCHANGED SmOthers
  \/ \E t \in Tasks : MkdirReturns(t) /\ UNCHANGED SmOthers
  \/ \E t \in Tasks : AppendWrites(t) /\ UNCHANGED SmOthers
  \/ \E t \in Tasks : AppendReturns(t) /\ UNCHANGED SmOthers

SpecTurns == InitStore /\ [][NextTurns]_vars

InitParse ==
  /\ ClInit /\ BoParked /\ RtParked /\ LpParked /\ StParked /\ SmParked
  /\ \E raw \in JsonTexts : FnCall("safeParseArguments", raw)
  /\ TrParked /\ LnParked /\ ObParked /\ FsParked

NextParse == SafeParseArgumentsReturns /\ UNCHANGED FnOthers

SpecParse == InitParse /\ [][NextParse]_vars

InitNormalize ==
  /\ ClInit /\ BoParked /\ RtParked /\ LpParked /\ StParked /\ SmParked
  /\ \E content \in ContentValues : NormalizeContentCalled(content)
  /\ TrParked /\ LnParked /\ ObParked /\ FsParked

NextNormalize == NormalizeContentReturns /\ UNCHANGED FnOthers

SpecNormalize == InitNormalize /\ [][NextNormalize]_vars

InitFactory ==
  /\ ClInit /\ BoParked /\ RtParked /\ LpParked /\ StParked /\ SmParked
  /\ \E c \in Configurations : CreateCalled(c)
  /\ TrParked /\ LnParked /\ ObParked /\ FsParked

NextFactory == CreateReturns /\ UNCHANGED FnOthers

SpecFactory == InitFactory /\ [][NextFactory]_vars

InitRegistry ==
  /\ ClInit /\ BoParked /\ RtParked /\ LpParked /\ StParked /\ SmParked
  /\ FnParked /\ TrStart /\ LnParked /\ ObParked /\ FsParked

NextRegistry ==
  \/ \E tool \in Tools : Register(tool) /\ UNCHANGED TrOthers
  \/ \E name \in ToolNames : Unregister(name) /\ UNCHANGED TrOthers
  \/ \E name \in ToolNames : Execute(name) /\ UNCHANGED TrOthers

SpecRegistry == InitRegistry /\ [][NextRegistry]_vars

(***************************************************************************)
(* Claims about providers/http.ts                                          *)
(***************************************************************************)

\* The retryable flag that section 7 of the specification fixes per kind.
KindRetryable(kind) == kind \in {"rate_limit", "timeout", "network", "server"}

\* C2: withRetry invokes the operation at most maxRetries + 1 times, and
\* when it gives up on a retryable error it does so at attempt number
\* maxRetries + 1.
C2_AtMostMaxRetriesPlusOneAttempts ==
  /\ rt_calls <= rt_policy.maxRetries + 1
  /\ (rt_pc = "raised" /\ rt_error.retryable)
       => rt_attempt = rt_policy.maxRetries + 1

\* C3: once an attempt has failed with a non-retryable error (a response
\* status that is neither 429 nor >= 500, or a rejection that is neither an
\* abort nor a TypeError), the classified ProviderError is raised at once:
\* no sleep and no attempt follows that failure, the timeout is released,
\* an HTTP error carries the response's status, and when the failure is the
\* first attempt exactly one attempt was made, whatever maxRetries is.
C3_NonRetryableFailure ==
  /\ rt_failed >= 1
  /\ \/ rt_lastStatus \in {s \in ErrorStatuses : s # 429 /\ s < 500}
     \/ rt_lastStatus = NoStatus /\ rt_thrown.type \in {"DOMException", "Error"}

C3_NonRetryableRaisedWithoutRetry ==
  C3_NonRetryableFailure =>
    /\ rt_pc = "raised"
    /\ rt_timer = 0
    /\ rt_error.type = "ProviderError" /\ ~rt_error.retryable
    /\ rt_lastStatus # NoStatus => rt_error.status = rt_lastStatus
    /\ rt_lastStatus = 401 => rt_error = ProviderError("auth", 401, FALSE)
    /\ rt_calls = rt_failed /\ rt_attempt = rt_failed
    /\ Len(rt_sleeps) = rt_failed - 1
    /\ rt_ok = 0

C3_Witness ==
  /\ rt_pc = "raised" /\ rt_lastStatus = 401 /\ rt_calls = 1
  /\ rt_sleeps = <<>> /\ rt_policy.maxRetries = MaxMaxRetries

\* C4: once an attempt has succeeded, withRetry has returned that attempt's
\* response: every earlier attempt failed with a retryable error and was
\* followed by one sleep, no attempt was made after the success, and no
\* error is raised.
C4_SuccessAfterRetriesReturns ==
  rt_ok >= 1 =>
    /\ rt_pc = "returned"
    /\ rt_ok = 1
    /\ rt_result = rt_lastStatus /\ rt_result \in OkStatuses
    /\ rt_calls = rt_failed + 1 /\ rt_attempt = rt_calls
    /\ Len(rt_sleeps) = rt_failed
    /\ rt_failed >= 1 => rt_error.retryable
    /\ rt_timer = 0

C4_Witness ==
  /\ rt_pc = "returned" /\ rt_failed >= 2 /\ rt_error.code = "server"
  /\ rt_result = 200

\* C5: classifyHttpStatusError maps 401 and 403 to auth (not retryable),
\* 429 to rate_limit (retryable), every status >= 500 to server
\* (retryable), every other status in 400..499 to bad_request (not
\* retryable) and every other status to unknown (not retryable), keeping
\* the status.
C5_Kind(status) ==
  CASE status \in {401, 403} -> "auth"
    [] status = 429 -> "rate_limit"
    [] status >= 500 -> "server"
    [] status \in (400..499) \ {401, 403, 429} -> "bad_request"
    [] OTHER -> "unknown"

C5_StatusTable ==
  cl_status # NoStatus =>
    /\ cl_result = ProviderError(C5_Kind(cl_status), cl_status,
                                 C5_Kind(cl_status) \in {"rate_limit", "server"})
    /\ cl_status \in {429, 500, 502, 503} => cl_result.retryable
    /\ cl_status \in {400, 401, 403, 404} => ~cl_result.retryable

C5_Witness ==
  cl_status = 403 /\ cl_result.code = "auth" /\ ~cl_result.retryable

\* C6: classifyProviderError maps an abort to timeout (retryable), a
\* TypeError to network (retryable), a ProviderError to itself and anything
\* else to unknown (not retryable); classifying the result again changes
\* nothing, and the flag of every error withRetry classified is the one
\* fixed by its kind.
C6_ClassifyProviderError ==
  rt_failed >= 1 =>
    /\ rt_thrown.type = "AbortError"
         => rt_error = ProviderError("timeout", NoStatus, TRUE)
    /\ rt_thrown.type = "TypeError"
         => rt_error = ProviderError("network", NoStatus, TRUE)
    /\ rt_thrown.type = "ProviderError" => rt_error = rt_thrown
    /\ rt_thrown.type \in {"DOMException", "Error"}
         => rt_error = ProviderError("unknown", NoStatus, FALSE)
    /\ classifyProviderError(rt_error) = rt_error
    /\ rt_error.retryable = KindRetryable(rt_error.code)

C6_Witness ==
  /\ rt_pc = "raised" /\ rt_thrown.type = "TypeError"
  /\ rt_error.code = "network" /\ rt_failed >= 2

\* C7: for 0 < baseDelay <= maxDelay the delay of attempt n is at most
\* maxDelay * 1.2 and at least the delay of attempt n - 1.
C7_BackoffMonotoneAndBounded ==
  /\ bo_attempt >= 1 => 5 * bo_delay <= 6 * bo_max
  /\ bo_attempt >= 2 => bo_prev <= bo_delay

C7_Witness ==
  /\ bo_attempt >= 3 /\ bo_prev < bo_delay
  /\ bo_delay = bo_max + (bo_max \div 5) /\ bo_base < bo_max

(***************************************************************************)
(* Claims about agent/loop.ts                                              *)
(***************************************************************************)

LpTerminal == lp_pc \in {"returned", "raised"}

\* The turn ended by running out of iterations: the last provider call of
\* the turn answered with tool calls and the loop was left at its head.
CapExhausted ==
  lp_pc = "returned" /\ lp_lastResponseHadTools /\ lp_providerCalls > 0

\* The most tool calls one response carries, and the most steps one
\* iteration of the loop takes: its head, the fragments of the stream, the
\* stream's end (or the chat's answer) and the tools.
ToolCallsBound ==
  CHOOSE n \in {Len(l) : l \in ToolCallLists} :
    \A l \in ToolCallLists : Len(l) <= n
IterationSteps == ToolCallsBound + MaxFrags + 2

\* The steps a turn still has before it: what is left of the iteration
\* under way, the iterations not begun, the loop's exit and the save.
TurnMeasure ==
  LET afterIteration == 2 + (maxIterations - lp_iteration) * IterationSteps IN
  CASE lp_pc = "idle" -> afterIteration + 1
    [] lp_pc = "loop" -> afterIteration
    [] lp_pc = "stream" ->
         afterIteration + ToolCallsBound + 1 + (MaxFrags - lp_frags)
    [] lp_pc = "chat" -> afterIteration + ToolCallsBound + 1
    [] lp_pc = "tools" -> afterIteration + (Len(lp_toolCalls) - lp_next + 1)
    [] lp_pc = "finish" -> 1
    [] OTHER -> 0

\* C1: within one turn of runOnce or runOnceStream the provider is called at
\* most maxIterations times; a turn that ends with the cap used up (every
\* call answered with tool calls) has made exactly maxIterations calls and
\* returns the empty string; and the turn finishes: a turn that has not
\* ended always has a step to take, and every step brings it nearer its end.
C1_TurnBoundedByMaxIterations ==
  /\ [](lp_providerCalls <= maxIterations)
  /\ [](CapExhausted =>
          lp_providerCalls = maxIterations /\ lp_returned = <<>>)
  /\ [](TurnMeasure >= 0 /\ (~LpTerminal => ENABLED NextLoop))
  /\ [][TurnMeasure' < TurnMeasure]_vars

C1_Witness ==
  /\ CapExhausted
  /\ lp_mode = "stream"
  /\ lp_providerCalls = maxIterations
  /\ lp_returned = <<>>
  /\ Len(lp_deltas) > 0

\* C10: in runOnceStream over a streaming provider no tool runs while the
\* iteration's stream is being consumed, and the tools that run are, in
\* order, the calls of the last fragment of that stream that carried any.
C10_ToolsRunAfterStreamEnd ==
  lp_mode = "stream" =>
    /\ lp_pc = "tools" => ~lp_streamOpen /\ lp_toolCalls = lp_lastToolFrag
    /\ Len(lp_execs) <= Len(lp_lastToolFrag)
    /\ \A i \in 1..Len(lp_execs) :
         /\ ~lp_execs[i].streamOpen
         /\ i <= Len(lp_lastToolFrag)
         /\ lp_execs[i].call = lp_lastToolFrag[i]

\* Two fragments of one stream carried different tool calls, and a tool ran.
C10_Witness ==
  /\ lp_mode = "stream"
  /\ lp_frags = 2
  /\ lp_lastToolFrag = <<ToolCallB, ToolCallA>>
  /\ Len(lp_execs) = 2
  /\ lp_execs[1].call = ToolCallB

(***************************************************************************)
(* Claims about the adapters' stream()                                     *)
(***************************************************************************)

\* The deltas of one index, in arrival order.
DeltasOf(index) == SelectSeq(st_deltas, LAMBDA d : d.index = index)

RECURSIVE ConcatArguments(_)
\* The argument fragments of a run of deltas, concatenated in order.
ConcatArguments(deltas) ==
  IF deltas = <<>> THEN <<>>
  ELSE LET last == deltas[Len(deltas)] IN
       ConcatArguments(SubSeq(deltas, 1, Len(deltas) - 1))
         \o (IF last.arguments = NullText THEN <<>> ELSE last.arguments)

RECURSIVE IndexOrder(_)
\* The indices of a run of deltas, each once, in the order they first came.
IndexOrder(deltas) ==
  IF deltas = <<>> THEN <<>>
  ELSE LET before == IndexOrder(SubSeq(deltas, 1, Len(deltas) - 1))
           index == deltas[Len(deltas)].index
       IN  IF \E k \in 1..Len(before) : before[k] = index
             THEN before ELSE Append(before, index)

\* C8: in the OpenAI-style stream, whatever deltas arrive, the text gathered
\* for an index is the concatenation, in arrival order, of the argument
\* fragments of that index and of no other; and once the body has ended
\* there is one call per index, with the last id and the last name that a
\* delta of the index delivered (a field that is absent or empty delivers
\* nothing) and, when the concatenation is the text of a JSON object, that
\* object as its arguments.
C8_ToolCallAssembledPerIndex ==
  st_adapter = "openai" =>
    LET order == IndexOrder(st_deltas) IN
    /\ Len(st_blocks) = Len(order)
    /\ \A k \in 1..Len(order) :
         /\ st_blocks[k].index = order[k]
         /\ st_blocks[k].args = ConcatArguments(DeltasOf(order[k]))
    /\ st_pc = "done" =>
         LET toolCalls == st_yielded[Len(st_yielded)].fragment.toolCalls IN
         /\ Len(toolCalls) = Len(order)
         /\ \A k \in 1..Len(order) :
              LET deltas == DeltasOf(order[k])
                  ids == SelectSeq(deltas, LAMBDA d : Truthy(d.id))
                  names == SelectSeq(deltas, LAMBDA d : Truthy(d.name))
                  parsed == JSONparse(ConcatArguments(deltas))
              IN  /\ ids # <<>> => toolCalls[k].id = ids[Len(ids)].id
                  /\ names # <<>> =>
                       toolCalls[k].name = names[Len(names)].name
                  /\ parsed.ok /\ parsed.val.t = "object" =>
                       toolCalls[k].arguments = parsed.val

\* Two indices interleaved; index 0 got its id twice and its arguments in
\* two fragments that make {"a":..} only in that order.
C8_Witness ==
  /\ st_adapter = "openai" /\ st_pc = "done"
  /\ st_deltas =
       <<ToolCallDelta(0, "call_b", NoVal, <<"{">>),
         ToolCallDelta(1, NoVal, NoVal, <<"{">>),
         ToolCallDelta(0, "call_a", "exec", <<"a", "}">>)>>
  /\ st_yielded[Len(st_yielded)].fragment.toolCalls =
       <<[id |-> "call_a", name |-> "exec", arguments |-> JObject(<<"a">>)],
         [id |-> "tool_1", name |-> "", arguments |-> JObject(<<>>)]>>

\* C9: in stream() of both adapters a fragment yielded before the body has
\* ended carries no tool calls; tool calls are in at most one fragment, the
\* last one, yielded after the body has ended; and no argument text is
\* parsed before then, each call's once.
C9_ToolCallsOnlyInLastFragment ==
  /\ \A i \in 1..Len(st_yielded) :
       /\ HasToolCalls(st_yielded[i].fragment.toolCalls) =>
            st_yielded[i].bodyEnded /\ i = Len(st_yielded)
       /\ st_yielded[i].bodyEnded => i = Len(st_yielded) /\ st_pc = "done"
  /\ st_pc # "done" => st_argParses = 0
  /\ st_pc = "done" =>
       /\ st_yielded # <<>> /\ st_yielded[Len(st_yielded)].bodyEnded
       /\ st_argParses =
            Len(st_yielded[Len(st_yielded)].fragment.toolCalls)

\* Text was yielded while a tool call was being gathered, and the call came
\* in the last fragment.
C9_Witness ==
  /\ st_pc = "done" /\ Len(st_yielded) >= 2
  /\ st_yielded[1].fragment.content = TextT
  /\ ~st_yielded[Len(st_yielded) - 1].bodyEnded
  /\ HasToolCalls(st_yielded[Len(st_yielded)].fragment.toolCalls)
  /\ st_argParses > 0

(***************************************************************************)
(* Claims about the turn and its session                                   *)
(***************************************************************************)

\* The two entries a completed turn leaves: the user's input, then the
\* text the turn returned.
TurnEntries(returned) ==
  <<SessionMessage("user", lp_userContent),
    SessionMessage("assistant", returned)>>

C12_ToolMessagesBeforeNextCall ==
  [][lp_providerCalls' = lp_providerCalls + 1 /\ lp_providerCalls > 0 =>
       LET k == Len(lp_toolCalls)
           n == Len(lp_sent)
       IN  /\ k > 0
           /\ Len(lp_execs) = k
           /\ \A i \in 1..k : lp_execs[i].call = lp_toolCalls[i]
           /\ Len(lp_sent') = n + 1 + k
           /\ SubSeq(lp_sent', 1, n) = lp_sent
           /\ lp_sent'[n + 1].role = "assistant"
           /\ Len(lp_sent'[n + 1].tool_calls) = k
           /\ \A i \in 1..k :
                /\ lp_sent'[n + 1].tool_calls[i].id = lp_toolCalls[i].id
                /\ lp_sent'[n + 1].tool_calls[i].function.name =
                     lp_toolCalls[i].name
                /\ lp_sent'[n + 1 + i].role = "tool"
                /\ lp_sent'[n + 1 + i].tool_call_id = lp_toolCalls[i].id
                /\ lp_sent'[n + 1 + i].name = lp_toolCalls[i].name
                /\ lp_sent'[n + 1 + i].content = lp_execs[i].result]_vars

\* The second provider call of a turn whose first response carried two
\* tool calls.
C12_Witness ==
  /\ lp_providerCalls = 2 /\ lp_pc \in {"chat", "stream"}
  /\ Len(lp_execs) = 0
  /\ Len(lp_sent) = 5
  /\ lp_sent[4] = ToolMessage(ToolCallB, <<"R", "exec">>)
  /\ lp_sent[5] = ToolMessage(ToolCallA, <<"R", "read_file">>)

\* The step in which a provider call ends and the last response of the turn
\* is one that carries tool calls.
TakesToolCallResponse ==
  /\ lp_pc \in {"chat", "stream"}
  /\ lp_pc' \notin {"chat", "stream"}
  /\ lp_lastResponseHadTools'

\* C13: a response that carries tool calls is never the final answer: the
\* step that takes it goes on to the tools (or fails) and leaves the final
\* text empty, and a turn whose last response carried tool calls ran out of
\* iterations and returns and stores the empty text, not that response's
\* content; a turn whose last response carried none returns and stores
\* that response's content.
C13_ToolCallResponseIsNotFinal ==
  /\ [][TakesToolCallResponse =>
         lp_pc' \in {"tools", "raised"} /\ lp_finalContent' \in {NullText, <<>>}]_vars
  /\ [](lp_pc \in {"finish", "returned"} /\ lp_lastResponseHadTools =>
          /\ lp_providerCalls = maxIterations
          /\ lp_finalContent \in {NullText, <<>>})
  /\ [](lp_pc = "returned" /\ lp_providerCalls > 0 =>
          LET final == IF lp_lastResponseHadTools \/ lp_lastContent = NullText
                         THEN <<>> ELSE lp_lastContent
          IN  /\ lp_returned = final
              /\ lp_session[Len(lp_session)].role = "assistant"
              /\ lp_session[Len(lp_session)].content = final
              /\ lp_file[Len(lp_file)].content = final)

\* The last response of a turn carried text together with tool calls, and
\* the turn returned the empty text.
C13_Witness ==
  /\ lp_pc = "returned" /\ lp_lastResponseHadTools /\ lp_mode = "chat"
  /\ lp_lastContent = <<"A">> /\ lp_returned = <<>>
  /\ lp_session[Len(lp_session)].content = <<>>

\* A response without tool calls ended the turn with its text.
C13_WitnessFinal ==
  /\ lp_pc = "returned" /\ ~lp_lastResponseHadTools /\ lp_providerCalls = 2
  /\ lp_lastContent = <<"A">> /\ lp_returned = <<"A">>

\* An execution that failed: tools.execute rejected.
Failed(execution) == execution.result = NullText

\* C14: in runOnceStream, once the execution of a tool call fails the turn
\* has ended with the error: the failed execution is the last one, the
\* message list holds the assistant message and the tool messages of the
\* calls before it and none for it, and no step follows, so no later call
\* of the response runs and the provider is not called again.
C14_ToolFailureEndsTurn ==
  /\ [](lp_mode \in {"stream", "chat"} =>
          /\ \A i \in 1..Len(lp_execs) :
               Failed(lp_execs[i]) => i = Len(lp_execs) /\ lp_pc = "raised"
          /\ lp_execs # <<>> /\ Failed(lp_execs[Len(lp_execs)]) =>
               /\ Len(lp_messages) = Len(lp_sent) + Len(lp_execs)
               /\ lp_messages[Len(lp_messages)].tool_call_id #
                    lp_execs[Len(lp_execs)].call.id
               /\ lp_providerCalls = lp_iteration)
  /\ [][lp_pc # "raised"]_vars

\* The second tool call of a streamed response failed after the first ran.
C14_Witness ==
  /\ lp_mode = "stream" /\ lp_pc = "raised" /\ Len(lp_execs) = 2
  /\ ~Failed(lp_execs[1]) /\ Failed(lp_execs[2])
  /\ lp_messages[Len(lp_messages)] = ToolMessage(ToolCallB, <<"R", "exec">>)
  /\ lp_providerCalls = 2

\* C15: a turn that ends with an error (the provider call fails, a tool
\* fails) leaves the session and its file as they were before the turn:
\* no step but the one that completes a turn changes either, so at the
\* error the session is the history it was loaded with and the file holds
\* that history and nothing else.
C15_FailedTurnLeavesSessionUntouched ==
  /\ [][lp_pc' # "returned" =>
          UNCHANGED <<lp_session, lp_file, lp_lastSavedIndex>>]_vars
  /\ [](lp_pc = "raised" =>
          /\ lp_session \in Histories
          /\ lp_file = lp_session
          /\ lp_lastSavedIndex = Len(lp_session))

\* A tool failed in the second iteration of a turn on a session with
\* history, after a tool had run in the first.
C15_Witness ==
  /\ lp_pc = "raised" /\ lp_iteration = 2
  /\ lp_execs # <<>> /\ Failed(lp_execs[Len(lp_execs)])
  /\ Len(lp_messages) > 6
  /\ Len(lp_session) = 2 /\ lp_file = lp_session

\* The provider failed after text had been streamed.
C15_WitnessProvider ==
  /\ lp_pc = "raised" /\ lp_mode = "stream" /\ lp_execs = <<>>
  /\ lp_deltas # <<>> /\ lp_frags > 0 /\ ~lp_streamOpen
  /\ lp_file = lp_session

\* C16: within one turn at most one awaited step is in flight at any
\* moment: while the provider is being called no tool runs and no other
\* provider call runs, and while a tool runs it is the only one, the next
\* in the order of the response.
C16_OneStepInFlight ==
  /\ Cardinality(lp_inFlight) <= 1
  /\ lp_pc \in {"chat", "stream"} <=>
       lp_inFlight = {InFlightProvider(lp_providerCalls)}
  /\ lp_pc = "tools" <=> lp_inFlight = {InFlightTool(lp_next)}
  /\ lp_pc \notin {"chat", "stream", "tools"} <=> lp_inFlight = {}

\* The second tool of a response is running after the first has ended.
C16_Witness ==
  /\ lp_pc = "tools" /\ lp_next = 2 /\ Len(lp_execs) = 1
  /\ lp_inFlight = {InFlightTool(2)} /\ lp_providerCalls = 2

(***************************************************************************)
(* Claims about the session store                                          *)
(***************************************************************************)

\* The turn of a caller has ended: its save has returned.
TurnDone(t) == sm_task[t].pc = "have" /\ sm_task[t].dirtyAtCall

\* C17: for two turns that run concurrently on one session key through one
\* SessionManager, the file holds at every moment what it held at the
\* start followed by the messages added so far up to some point, each once
\* and in the order added, and when both turns have ended it holds all of
\* them.
C17_AppendsSerializedPerKey ==
  /\ \E n \in 0..Len(sm_added) : sm_file = sm_file0 \o SubSeq(sm_added, 1, n)
  /\ (\A t \in Tasks : TurnDone(t)) => sm_file = sm_file0 \o sm_added

\* Both turns have ended and the messages of one of them are not in the
\* file.
C17_LostMessages ==
  /\ \A t \in Tasks : TurnDone(t)
  /\ Len(sm_file) < Len(sm_file0) + Len(sm_added)

\* Both turns have ended and the file holds a message twice.
C17_DuplicatedMessages ==
  /\ \A t \in Tasks : TurnDone(t)
  /\ Len(sm_file) > Len(sm_file0) + Len(sm_added)

\* C18: a save called with nothing new writes nothing: appendFile is only
\* ever called by a save before which, and after the save before it or the
\* load, addMessage was called; a session just loaded, and a session just
\* saved, has no unsaved messages.
C18_SaveWithNothingNewWritesNothing ==
  /\ \A t \in Tasks :
       sm_task[t].pc \in {"appending", "written"} => sm_task[t].dirtyAtCall
  /\ \A i \in 1..Len(sm_objs) :
       (~sm_objs[i].dirty /\ \A t \in Tasks : sm_task[t].pc = "have") =>
         getUnsavedMessages(sm_objs[i].messages, sm_objs[i].lastSavedIndex)
           = <<>>

\* A session loaded from a file with history was saved at once, and a
\* session was saved twice in a row; only the one save with something new
\* called appendFile.
C18_Witness ==
  /\ sm_file0 # <<>> /\ sm_task[1].pc = "have" /\ sm_task[1].ops = MaxOps
  /\ ~sm_task[1].dirtyAtCall /\ sm_writes = 1
  /\ Len(sm_file) = Len(sm_file0) + 1

(***************************************************************************)
(* Claims about tool-call arguments                                        *)
(***************************************************************************)

\* C19: safeParseArguments returns, for every text, the object the text is
\* the JSON of, and the empty object for every other text: text that is
\* not JSON, and the JSON of an array, a number, a string, a boolean or
\* null.
C19_ObjectOrEmptyObject ==
  fn_name = "safeParseArguments" /\ fn_result # JUndefined =>
    LET parsed == JSONparse(fn_arg) IN
    fn_result = IF parsed.ok /\ parsed.val.t = "object"
                  THEN parsed.val ELSE JObject(<<>>)

\* C20: every tool call of every fragment an adapter's stream yields has
\* arguments that are an object: never null, an array or a scalar,
\* whatever argument text the vendor sent.
C20_ArgumentsAreObjects ==
  \A i \in 1..Len(st_yielded) :
    LET toolCalls == st_yielded[i].fragment.toolCalls IN
    \A k \in 1..Len(toolCalls) : toolCalls[k].arguments.t = "object"

(***************************************************************************)
(* Claims about normalizeContent                                           *)
(***************************************************************************)

Normalized == fn_name = "normalizeContent" /\ fn_result # Pending

\* An object with a string text field.
IsTextPart(part) == part.t = "object" /\ Field(part, "text").t = "string"

\* C21: normalizeContent returns a string unchanged; for a list of text
\* parts the concatenation of their texts; for an object with a string
\* text field that field, else with a string content field that field; for
\* any other object its JSON serialization.
C21_NormalizeContentByShape ==
  Normalized =>
    /\ fn_arg.t = "string" => fn_result = fn_arg.s
    /\ (fn_arg.t = "array" /\ \A i \in 1..Len(fn_arg.parts) : IsTextPart(fn_arg.parts[i]))
         => fn_result = JoinTexts([i \in 1..Len(fn_arg.parts) |->
                                     Field(fn_arg.parts[i], "text").s])
    /\ (fn_arg.t = "object" /\ IsTextPart(fn_arg))
         => fn_result = Field(fn_arg, "text").s
    /\ (fn_arg.t = "object" /\ ~IsTextPart(fn_arg)
          /\ Field(fn_arg, "content").t = "string")
         => fn_result = Field(fn_arg, "content").s
    /\ (fn_arg.t = "object" /\ ~IsTextPart(fn_arg)
          /\ Field(fn_arg, "content").t # "string")
         => fn_result = StringifyValue(fn_arg)

\* The part gives no text: extractText gives null or the empty string.
YieldsNothing(part) == extractText(part) \in {NullText, <<>>}

\* C22: for a sequence of parts normalizeContent returns null when every
\* part yields nothing (the empty sequence included), a text that is not
\* null otherwise, and never the serialization of the sequence.
C22_NullOnlyIfEveryPartYieldsNothing ==
  Normalized /\ fn_arg.t = "array" =>
    /\ (fn_result = NullText) <=>
         (\A i \in 1..Len(fn_arg.parts) : YieldsNothing(fn_arg.parts[i]))
    /\ fn_result # StringifyValue(fn_arg)

(***************************************************************************)
(* Claims about the end of a stream                                        *)
(***************************************************************************)

\* The fragment yielded after the body ended.
FinalFragment == st_yielded[Len(st_yielded)].fragment

\* C23: when no event of the body carried a finish reason, the final
\* fragment's finishReason is "tool_calls" if a tool call was assembled and
\* "stop" otherwise, with or without a `data: [DONE]` line in the body.
C23_DefaultFinishReason ==
  st_pc = "done" /\ ~st_reported =>
    FinalFragment.finishReason =
      IF FinalFragment.toolCalls # <<>> THEN "tool_calls" ELSE "stop"

RECURSIVE ConcatPartialJson(_)
\* The partial_json of a run of input_json_delta events, in order.
ConcatPartialJson(events) ==
  IF events = <<>> THEN <<>>
  ELSE events[1].json \o ConcatPartialJson(Tail(events))

\* The events of a block index are one content_block_start of a tool_use
\* block and then input_json_delta fragments that together are the text of
\* a JSON object.
OpenedThenDelivered(events) ==
  /\ Len(events) >= 2
  /\ events[1].type = "content_block_start"
  /\ \A k \in 2..Len(events) : events[k].type = "content_block_delta"
  /\ JSONparse(ConcatPartialJson(Tail(events))).ok
  /\ JSONparse(ConcatPartialJson(Tail(events))).val.t = "object"

\* C24: in the Anthropic-style stream, a tool_use block opened by a
\* content_block_start event (whatever input the event carries) and then
\* delivered as input_json_delta fragments of its index gives a final tool
\* call with the block's id and name and with the object the concatenated
\* fragments are the JSON of as its arguments.
C24_ToolUseBlockAssembled ==
  st_adapter = "anthropic" /\ st_pc = "done" =>
    \A index \in {0, 1} :
      LET events == SelectSeq(st_deltas, LAMBDA ev : ev.index = index) IN
      OpenedThenDelivered(events) /\ Truthy(events[1].id) =>
        \E k \in 1..Len(FinalFragment.toolCalls) :
          /\ FinalFragment.toolCalls[k].id = events[1].id
          /\ FinalFragment.toolCalls[k].name = events[1].name
          /\ FinalFragment.toolCalls[k].arguments =
               JSONparse(ConcatPartialJson(Tail(events))).val

(***************************************************************************)
(* Claims about the events of runOnceStream                                *)
(***************************************************************************)

EventsOfType(events, types) == SelectSeq(events, LAMBDA event : event.type \in types)

RECURSIVE SinceLastStatus(_)
\* The events of the iteration the turn is in: those after the last status
\* event.
SinceLastStatus(events) ==
  IF events = <<>> \/ events[Len(events)].type = "status" THEN <<>>
  ELSE Append(SinceLastStatus(SubSeq(events, 1, Len(events) - 1)),
              events[Len(events)])

\* No tool is running and none is about to.
BetweenTools == lp_pc \in {"loop", "finish", "returned", "raised"}

\* C25: in runOnceStream with a listener, every provider call was preceded
\* by one status event of its own; a tool_call event is emitted for a call
\* only if the call is executed, and before it is; and every execution is
\* followed by one tool_result or tool_error event.
C25_EventsMatchExecutions ==
  lp_mode \in {"stream", "chat"} /\ lp_listener = "ok" =>
    LET events == SinceLastStatus(lp_events)
        calls == EventsOfType(events, {"tool_call"})
        ends == EventsOfType(events, {"tool_result", "tool_error"})
    IN
    /\ Len(EventsOfType(lp_events, {"status"})) = lp_providerCalls
    /\ Len(lp_execs) <= Len(calls)
    /\ \A i \in 1..Len(lp_execs) :
         /\ calls[i].name = lp_execs[i].call.name
         /\ ends[i] = Event(IF Failed(lp_execs[i]) THEN "tool_error"
                            ELSE "tool_result", lp_execs[i].call.name)
    /\ Len(ends) = Len(lp_execs)
    /\ BetweenTools => Len(calls) = Len(lp_execs)

\* The step ends the turn with an error.
TurnRaises == lp_pc # "raised" /\ lp_pc' = "raised"

\* The error is the provider's (the call or the stream was awaited and no
\* listener was being called) or that of the tool that was executed.
RaisedByProviderOrTool ==
  \/ lp_pc \in {"chat", "stream"} /\ lp_events' = lp_events
  \/ lp_pc = "tools" /\ lp_execs' # <<>> /\ Failed(lp_execs'[Len(lp_execs')])

\* C26: the listener is presentation only: whether onEvent is absent, does
\* nothing or fails, the turn makes the provider calls and tool executions
\* that the provider's and the tools' behaviour gives, and it raises only
\* the error of the provider or of a tool.
C26_ListenerDoesNotChangeOutcome ==
  [][lp_mode' \in {"stream", "chat"} /\ TurnRaises => RaisedByProviderOrTool]_vars

\* The texts of the fragments the provider yielded that are not empty.
YieldedTexts ==
  SelectSeq([i \in 1..Len(st_yielded) |-> st_yielded[i].fragment.content],
            LAMBDA content : content # NullText /\ content # <<>>)

\* C27: when the provider's stream yields text fragments and no tool
\* calls, onDelta is called once per fragment that is not empty, in the
\* stream's order; the turn returns the concatenation of the fragments, and
\* that text is the content of the assistant entry it persists.
C27_StreamedTextIsReturnedAndPersisted ==
  lp_pc = "returned" =>
    /\ lp_deltas = YieldedTexts
    /\ lp_returned = JoinTexts(YieldedTexts)
    /\ lp_session[Len(lp_session)] = SessionMessage("assistant", JoinTexts(YieldedTexts))
    /\ lp_file[Len(lp_file)] = SessionMessage("assistant", JoinTexts(YieldedTexts))

\* Two different texts were yielded and the turn returned them joined.
C27_Witness ==
  /\ lp_pc = "returned"
  /\ YieldedTexts = <<<<"B">>, <<"A">>>>
  /\ lp_returned = <<"B", "A">>

(***************************************************************************)
(* Claims about the tool registry                                          *)
(***************************************************************************)

\* The register and unregister calls made with a name.
CallsOn(name) == SelectSeq(tr_log, LAMBDA call : call.name = name)

\* The name is registered: the last call made with it was a register.
Registered(name) ==
  CallsOn(name) # <<>> /\ CallsOn(name)[Len(CallsOn(name))].op = "register"

\* C28: after any register and unregister calls, execute runs the tool
\* most recently registered under the name if the name is registered, and
\* otherwise throws "Tool not found" and runs no tool.
C28_ExecuteRunsLatestOrFails ==
  tr_executed # NoExecute =>
    LET calls == CallsOn(tr_executed.name) IN
    IF Registered(tr_executed.name)
      THEN tr_executed.ran = calls[Len(calls)].tool /\ tr_executed.error = NoVal
      ELSE tr_executed.ran = NoTool /\ tr_executed.error = "Tool not found"

\* A name was registered twice and the second tool ran.
C28_Witness ==
  /\ tr_executed.ran = Tool("exec", 2)
  /\ CallsOn("exec") # <<>> /\ CallsOn("exec")[1].tool = Tool("exec", 1)

\* A name was registered, then unregistered, and execute found no tool.
C28_WitnessNotFound ==
  /\ tr_executed.error = "Tool not found"
  /\ Len(CallsOn(tr_executed.name)) >= 2

(***************************************************************************)
(* Claims about provider selection                                         *)
(***************************************************************************)

\* The name configured: agents.defaults.provider, else providers.default;
\* NoVal when it is none of the three names (letter case and surrounding
\* blanks aside).
ConfiguredProvider(c) ==
  LET name == IF c.agentsProvider # NoVal THEN c.agentsProvider
              ELSE c.providersDefault
  IN  IF LowerTrim(name) \in {"openai", "openrouter", "anthropic"}
        THEN LowerTrim(name) ELSE NoVal

KeyPresent(c, provider) ==
  c.envKey[provider] \notin {NoVal, ""} \/ c.configKey[provider] \notin {NoVal, ""}

\* The first of openai, openrouter, anthropic with a key; NoVal if none.
FirstWithKey(c) ==
  CASE KeyPresent(c, "openai") -> "openai"
    [] ~KeyPresent(c, "openai") /\ KeyPresent(c, "openrouter") -> "openrouter"
    [] ~KeyPresent(c, "openai") /\ ~KeyPresent(c, "openrouter")
         /\ KeyPresent(c, "anthropic") -> "anthropic"
    [] OTHER -> NoVal

ByPriority(c) ==
  IF ConfiguredProvider(c) # NoVal THEN ConfiguredProvider(c) ELSE FirstWithKey(c)

\* C29: create takes the configured name when it is one of the three
\* providers, else the first of openai, openrouter, anthropic that has an
\* API key in the environment or the config; it fails with "No provider
\* configured" when neither gives a name, and never returns another name
\* than the one so resolved.
C29_ProviderResolvedByPriority ==
  fn_name = "ProviderFactory.create" /\ fn_result # NotCreated =>
    IF ByPriority(fn_arg) = NoVal
      THEN fn_result = Resolved(NoVal, "No provider configured")
      ELSE /\ fn_result.error # "No provider configured"
           /\ fn_result.name \in {ByPriority(fn_arg), NoVal}
           /\ (KeyPresent(fn_arg, ByPriority(fn_arg))
                 /\ fn_arg.envKey[ByPriority(fn_arg)] # "")
                => fn_result.name = ByPriority(fn_arg)

\* No name is configured, openai has no key, openrouter and anthropic have
\* one: openrouter is created.
C29_Witness ==
  /\ fn_result = Resolved("openrouter", NoVal)
  /\ ConfiguredProvider(fn_arg) = NoVal
  /\ KeyPresent(fn_arg, "anthropic")

(***************************************************************************)
(* Claims about the request timeout                                        *)
(***************************************************************************)

\* C30: every stream() call that has sent its request ends, with its
\* final fragment or with an error, even if the vendor stops delivering the body after the headers:
\* the timer of the request aborts it.
C30_StreamEventuallyEnds ==
  (st_pc = "requesting") ~> (st_pc \in {"done", "raised"})

(***************************************************************************)
(* C31: each attempt arms one timeout of its own and releases it when the  *)
(* attempt ends, whatever the outcome: while the fetch of an attempt is    *)
(* pending exactly one timeout is armed, and none is armed at the loop     *)
(* head, during a backoff sleep, or once fetchWithRetry has returned or    *)
(* raised.                                                                 *)
(***************************************************************************)
C31_OneTimeoutPerAttempt ==
  /\ rt_timer <= 1
  /\ rt_pc = "fetching" => rt_timer = 1
  /\ rt_pc \in {"loop", "sleeping", "returned", "raised"} => rt_timer = 0

\* A backoff sleep after a second failed attempt.
C31_Witness ==
  /\ rt_pc = "sleeping" /\ rt_failed = 2 /\ rt_timer = 0

\* A response returned by the attempt after a failed one.
C31_WitnessReturned ==
  /\ rt_pc = "returned" /\ rt_failed = 1 /\ rt_ok = 1 /\ rt_timer = 0

(***************************************************************************)
(* C32: an attempt that ends in a non-2xx response whose body cannot be    *)
(* read raises or retries exactly as the status alone decides: the error   *)
(* is the ProviderError of the status table (kind, status, retryable       *)
(* flag), and the attempt is followed by a raise or by a backoff sleep as  *)
(* it is for a readable body (raise when the kind is not retryable or the  *)
(* attempts are used up, else sleep).                                      *)
(***************************************************************************)
UnreadableErrorBody ==
  /\ rt_failed' = rt_failed + 1
  /\ rt_lastStatus' \in ErrorStatuses
  /\ rt_details' = ""

StatusDecides ==
  LET kind == C5_Kind(rt_lastStatus')
      retryable == kind \in {"rate_limit", "server"}
      givesUp == ~retryable \/ rt_attempt > rt_policy.maxRetries + 1
  IN /\ rt_error' = ProviderError(kind, rt_lastStatus', retryable)
     /\ rt_thrown' = rt_error'
     /\ rt_pc' = IF givesUp THEN "raised" ELSE "sleeping"
     /\ Len(rt_sleeps') = Len(rt_sleeps) + IF givesUp THEN 0 ELSE 1

C32_UnreadableBodyKeepsStatusError == [][UnreadableErrorBody => StatusDecides]_vars

\* A 503 whose body could not be read is retried.
C32_Witness ==
  /\ rt_details = "" /\ rt_lastStatus = 503 /\ rt_pc = "sleeping"
  /\ rt_error = ProviderError("server", 503, TRUE)

\* A 404 whose body could not be read is raised as bad_request.
C32_WitnessRaised ==
  /\ rt_details = "" /\ rt_lastStatus = 404 /\ rt_pc = "raised"
  /\ rt_error = ProviderError("bad_request", 404, FALSE)

(***************************************************************************)
(* Claims about the lines of a streamed body                               *)
(***************************************************************************)

\* What the while over the lines makes of a body handed to it in one piece.
Processed(adapter, body) ==
  Drain([adapter |-> adapter, buffer |-> body, blocks |-> <<>>,
         finishReason |-> NoVal, yielded |-> <<>>, deltas |-> <<>>,
         reported |-> FALSE])

\* The fragments stream() has yielded from inside its for await.
YieldedInLoop == SelectSeq(st_yielded, LAMBDA y : ~y.bodyEnded)

\* A line that is not a data line, or a data line whose payload is not
\* valid JSON; the [DONE] marker is the terminator and not such a line.
IsSkippedLine(line) ==
  \/ line = <<>>
  \/ line[1] # DataPrefix
  \/ Tail(line) # <<Tok("[DONE]")>> /\ ~IsJsonPayload(Tail(line))

RECURSIVE WithoutSkippedLines(_)
\* The body with every complete line of that kind taken out.
WithoutSkippedLines(body) ==
  LET lineEnd == IndexOfNewline(body) IN
  IF lineEnd = 0 THEN body
  ELSE (IF IsSkippedLine(SubSeq(body, 1, lineEnd - 1)) THEN <<>>
        ELSE SubSeq(body, 1, lineEnd))
       \o WithoutSkippedLines(SubSeq(body, lineEnd + 1, Len(body)))

\* C33: in both adapters, lines that are not data lines and data lines
\* whose payload is not valid JSON change nothing: the fragments yielded,
\* the tool-call state and the finish reason are those of the same body
\* with these lines taken out.
C33_MalformedLinesSkipped ==
  st_pc \in {"reading", "done"} =>
    LET clean == Processed(st_adapter, WithoutSkippedLines(ln_body)) IN
    /\ YieldedInLoop = clean.yielded
    /\ st_blocks = clean.blocks
    /\ st_finishReason = clean.finishReason

\* C34: what stream() has yielded and holds depends on the bytes received
\* and not on the chunks they came in: after every chunk the fragments,
\* the tool-call state, the finish reason, the deltas handled and the
\* unfinished line left in the buffer are those of the received bytes
\* handled as a single chunk, so each line is handled once, complete.
C34_ChunkingDoesNotMatter ==
  st_pc \in {"reading", "done"} =>
    LET whole == Processed(st_adapter, ln_body) IN
    /\ YieldedInLoop = whole.yielded
    /\ st_blocks = whole.blocks
    /\ st_finishReason = whole.finishReason
    /\ st_deltas = whole.deltas
    /\ st_buffer = whole.buffer

\* A data line that came in three chunks, the payload in two of them, and
\* was handled when its newline arrived.
C34_Witness ==
  /\ st_adapter = "openai" /\ st_chunks = 3
  /\ ln_body = SplitDataLine(ToolDeltaEvent)
  /\ Len(st_blocks) = 1 /\ st_buffer = <<>>

\* Two lines in three chunks, cut inside the second line.
C34_WitnessTwoLines ==
  /\ st_adapter = "anthropic" /\ st_chunks = 3 /\ st_pc = "done"
  /\ ln_body = DataLine(ContentBlockDelta(0, "text_delta", TextT, NullText))
                 \o SplitDataLine(ToolUseEvent)
  /\ Len(st_yielded) = 2 /\ Len(st_blocks) = 1

\* C35: once stream() has ended, every data event of the body has been
\* handled, the one in a last line that ends with the body instead of a
\* newline included: the fragments, the tool-call state and the finish
\* reason are those of the body with that line terminated.
C35_LastLineWithoutNewlineHandled ==
  st_pc = "done" =>
    LET terminated == Processed(st_adapter, ln_body \o <<NL>>) IN
    /\ YieldedInLoop = terminated.yielded
    /\ st_blocks = terminated.blocks
    /\ st_finishReason = terminated.finishReason

(***************************************************************************)
(* Claims about the message list of a turn                                 *)
(***************************************************************************)

IsPrefix(a, b) == Len(a) <= Len(b) /\ a = SubSeq(b, 1, Len(a))

\* The step in which the provider is called.
ProviderCalled == lp_providerCalls' = lp_providerCalls + 1

\* The head of every list: the preamble, the history as the session holds
\* it during the turn, the turn's user message.
TurnHead ==
  <<[role |-> "system", content |-> <<"You are a helpful assistant.">>,
     tool_call_id |-> NoVal, name |-> NoVal, tool_calls |-> <<>>]>>
    \o [i \in 1..Len(lp_session) |->
          [role |-> lp_session[i].role, content |-> lp_session[i].content,
           tool_call_id |-> NoVal, name |-> NoVal, tool_calls |-> <<>>]]
    \o <<[role |-> "user", content |-> lp_userContent,
          tool_call_id |-> NoVal, name |-> NoVal, tool_calls |-> <<>>]>>

\* Every tool-role message comes after an assistant message that lists its
\* tool_call_id among its tool_calls.
ToolMessagesAnswerCalls(messages) ==
  \A i \in 1..Len(messages) :
    messages[i].role = "tool" =>
      \E j \in 1..(i - 1) :
        /\ messages[j].role = "assistant"
        /\ \E k \in 1..Len(messages[j].tool_calls) :
             messages[j].tool_calls[k].id = messages[i].tool_call_id

GrowsFromTurnHead ==
  /\ IsPrefix(lp_sent, lp_sent')
  /\ IsPrefix(TurnHead, lp_sent')
  /\ ToolMessagesAnswerCalls(lp_sent')

\* C36: the list given to a provider call extends the list given to the
\* turn's previous call, begins with the system preamble, the session
\* history and the new user message, and holds no tool message without an
\* earlier assistant message that carries its tool_call_id.
C36_MessageListOnlyGrows == [][ProviderCalled => GrowsFromTurnHead]_vars

\* A third provider call of a turn on a session with history, after two
\* rounds of tools.
C36_Witness ==
  /\ lp_providerCalls = 3 /\ Len(lp_session) = 2
  /\ Len(lp_sent) > Len(TurnHead) + 3
  /\ \E i \in 1..Len(lp_sent) : lp_sent[i].role = "tool"

(***************************************************************************)
(* Claims about the session file                                           *)
(***************************************************************************)

\* C37: with addMessage and save called one after another on a session,
\* every write to the file keeps what the file held as a prefix and adds
\* to it the messages added since the last save that succeeded, once each
\* and in the order added: the file is then its first content followed by
\* every message added so far.  A save that fails writes nothing, and
\* once a save has returned nothing added before it is missing.
FileWritten == sm_file' # sm_file

SaveReturned ==
  sm_task[1].pc \in {"mkdir", "written"} /\ sm_task'[1].pc = "have"

AppendsTheUnsaved ==
  /\ FileWritten =>
       /\ IsPrefix(sm_file, sm_file') /\ Len(sm_file') > Len(sm_file)
       /\ sm_file' = sm_file0 \o sm_added
  /\ SaveReturned => sm_file' = sm_file0 \o sm_added

C37_SaveAppendsUnsavedOnce == [][AppendsTheUnsaved]_vars

\* Two saves that wrote, each after a message was added, on a session
\* loaded from a file with history.
C37_Witness ==
  /\ sm_file0 # <<>> /\ sm_writes = 2 /\ sm_task[1].pc = "have"
  /\ Len(sm_added) = 2 /\ sm_file = sm_file0 \o sm_added

\* C38: every getOrCreate call on the key returns the same Session object,
\* calls that overlap included: the callers that were handed a Session
\* all hold the same one, and it is the one in the manager's map.
HandedOut == {sm_task[t].session : t \in Tasks} \ {0}

C38_OneSessionPerKey ==
  /\ Cardinality(HandedOut) <= 1
  /\ \A session \in HandedOut : session = sm_cache

(***************************************************************************)
(* Claims about the text of a runOnceStream turn                           *)
(***************************************************************************)

RECURSIVE Flatten(_)
Flatten(texts) ==
  IF texts = <<>> THEN <<>> ELSE Head(texts) \o Flatten(Tail(texts))

\* What onDelta was given since the provider was last called, joined.
LastCallText == Flatten(SubSeq(lp_deltas, ob_mark + 1, Len(lp_deltas)))

\* The turn has returned: the returned text, which is also the assistant
\* entry added to the session and appended to the file, is the text of
\* the last provider call, or empty when that call ended with tool calls.
ReturnsLastCallText ==
  lp_pc = "returned" =>
    /\ lp_returned = IF lp_lastResponseHadTools THEN <<>> ELSE LastCallText
    /\ lp_session[Len(lp_session)] = [role |-> "assistant", content |-> lp_returned]
    /\ lp_file[Len(lp_file)] = [role |-> "assistant", content |-> lp_returned]

\* A stream ends with tool calls: the text it streamed went to onDelta
\* and is the content of the assistant message pushed with the calls
\* (null when there was none).
ToolCallMessageHoldsText ==
  (lp_pc = "stream" /\ lp_pc' = "tools") =>
    /\ Len(lp_messages') = Len(lp_messages) + 1
    /\ lp_messages'[Len(lp_messages')].role = "assistant"
    /\ lp_messages'[Len(lp_messages')].tool_calls # <<>>
    /\ lp_messages'[Len(lp_messages')].content =
         IF LastCallText = <<>> THEN NullText ELSE LastCallText

\* C39: a runOnceStream turn returns and persists the text of its last
\* provider call only; text streamed by a call that ends with tool calls
\* is given to onDelta and kept in that call's assistant message, not in
\* the returned text, and a turn whose last call ended with tool calls
\* returns the empty text.
C39_ReturnsTextOfLastCallOnly ==
  [][ToolCallMessageHoldsText /\ ReturnsLastCallText']_vars

\* A turn whose first call streamed text and tool calls and whose second
\* call streamed the text it returned.
C39_Witness ==
  /\ lp_mode = "stream" /\ lp_pc = "returned" /\ lp_providerCalls = 2
  /\ Len(lp_deltas) = 2 /\ ob_mark = 1 /\ lp_returned = <<"A">>

\* A turn that used up its iterations on calls that streamed text and
\* tool calls, and returned the empty text.
C39_WitnessExhausted ==
  /\ lp_mode = "stream" /\ lp_pc = "returned"
  /\ lp_providerCalls = maxIterations /\ lp_lastResponseHadTools
  /\ LastCallText # <<>> /\ lp_returned = <<>>

(***************************************************************************)
(* C40: what a manager saved for a key, a fresh manager over the same      *)
(* directory loads: the loaded history is the entries the file held,       *)
(* followed by the messages added and saved, with the same roles and       *)
(* contents in the same order and the same timestamps (an old entry        *)
(* without timestamp aside); lines that are blank, not valid JSON or       *)
(* without a role give no entry and do not fail the load.                  *)
(***************************************************************************)
SameMessage(loaded, expected) ==
  /\ loaded.role = expected.role
  /\ loaded.content = expected.content
  /\ expected.timestamp # Absent => loaded.timestamp = expected.timestamp

====
